---- MODULE Spec2Model ----
(***************************************************************************)
(* Blinkit automation: the multi-strategy executor.                        *)
(*   - HTTP mode: BlinkitAPIClient._make_request (retry/backoff) and the   *)
(*     endpoint fallback chains of BlinkitCart / BlinkitCheckout.          *)
(*   - page mode: the selector chains of CheckoutService and               *)
(*     CartService.add_to_cart.                                            *)
(* One operation runs at a time (a single logical session); the remote     *)
(* side (HTTP answers, what the page renders) is nondeterministic.         *)
(***************************************************************************)
EXTENDS Integers, Sequences, FiniteSets, TLC

VARIABLES
    \* ---- HTTP mode ----
    op,             \* the BlinkitCart/BlinkitCheckout method that is running, or "idle"
    pc,             \* position inside it: "idle", "loop", "request", "done"
    idx,            \* 1-based position of the for loop in the endpoint list
    last_error,     \* the chain's local last_error
    requested,      \* endpoints on which _make_request has been called, in order
    outcomes,       \* per requested endpoint: how its answer was classified
    attempt,        \* _make_request: the retry loop's variable `attempt`
    last_exception, \* _make_request: the local last_exception
    reqLog,         \* events of the current _make_request call (attempts, sleeps)
    reqResult,      \* how the current/last _make_request call ended
    result,         \* what the running method returned or raised
    cart_cache,     \* BlinkitCart._cart_cache
    \* ---- page mode: CheckoutService selector chains ----
    chkOp,          \* the CheckoutService method that is running, or "idle"
    chkPc,          \* "idle", "loop", "done"
    chkIdx,         \* 1-based position of the for loop in the selector list
    probes,         \* per selector tried: what the page showed and what was done
    chkResult,      \* the method's return value: "none", "True", "False"
    \* ---- page mode: the page and the manager (persist across calls) ----
    rendered,       \* ids of the product cards the page shows, in page order
    cartQty,        \* per product: the quantity the source holds in the cart
    cap,            \* the source's per-item maximum (0 while no page is open)
    known_products, \* manager.known_products: id -> {source_query, name}
    current_query,  \* manager.current_query
    \* ---- page mode: CartService.add_to_cart ----
    crtPc,          \* "closed" (no browser yet), "idle", "lookup", "researched", "add", "plus_find", "plus_loop", "final", "done"
    product_id,     \* argument
    quantity,       \* argument
    card,           \* the product whose card the local `card` points at, or "none"
    lookup,         \* how the id was found at step 1: "none", "on_page", "known", "unknown"
    cardHow,        \* how `card` was located: "none", "id", "name", "first"
    addVisible,     \* add_btn.is_visible() was true
    plusFound,      \* the '+' control was found and visible
    items_to_add,   \* local
    loop_i,         \* the increment loop's variable i
    clicks,         \* the click actions issued by this call, in order
    searches,       \* the queries this call re-searched, in order
    limitSeenAt,    \* Len(clicks) when the limit message was observed, else 0
    limitHit,       \* a '+' click of this call was refused by the source (item at its maximum)
    out,            \* what the call printed (the text the caller gets) and returned
    \* ---- HTTP mode: BlinkitCart._parse_cart_response ----
    cart_data,      \* the cart payload of the response being parsed, or NoPayload
    parsed,         \* the Cart that _parse_cart_response returned, or NoCart
    \* ---- page mode: CartService.get_cart_items ----
    drawer_view,    \* what the page shows while the cart is read, or NoView
    items_text,     \* what get_cart_items returned, or "none"
    \* ---- page mode: CheckoutService.place_order and complete_order_flow ----
    flowPc,         \* "idle", "search", "checkout", "markers", "branch", "proceed", "cod", "place", "done"
    visible_markers,\* the indicator selectors visible after Proceed was clicked
    checkout_result,\* what place_order returned, or "none"
    flow_steps,     \* the service calls complete_order_flow has made: <<[step, ok]>>
    \* ---- HTTP mode: BlinkitAPIService.complete_order_workflow ----
    wfArgs,         \* the call's arguments: search_query, product_index, quantity, address_index
    wfPc,           \* "idle", "search", "add", "verify", "addresses", "place", "done"
    workflow_result,\* the dict the workflow returns: success, steps, order, error
    wfCalls,        \* the service methods the workflow has called, in order
    wfFailedAt,     \* the step in which an exception was raised, or "none"
    \* ---- page mode: CheckoutService.select_address ----
    role_cards,     \* how many cards div[role='button']:has-text('Home'/'Work'/'Other') matches
    text_cards,     \* how many cards the alternative div:has-text(...) selector matches
    selected,       \* the index of the address the source holds as selected, or -1
    addrCalls,      \* the select_address calls since the address screen opened: <<[index, result]>>
    \* ---- the browser server: BlinkitContext and the tool invocations ----
    auth_page,      \* ctx.auth.page: 0 (None) or the id of a page
    order_page,     \* the page ctx.order was built on: 0 when ctx.order is None
    pages_created,  \* how many pages start_browser has created so far
    closed_pages,   \* the ids of the pages that are closed
    toolPc,         \* per tool invocation: "idle", "launching", "launched", "acting"
    guard_ok,       \* per invocation: the session was live and consistent when ensure_started returned
    \* ---- HTTP mode: BlinkitAPIService.start/stop and the client's session ----
    session_started,\* BlinkitAPIService._session_started
    http_session,   \* BlinkitAPIClient.session: "None", "open" or "closed"
    sent_on,        \* the requests issued so far: <<[entry, session]>>, session as it was then
    \* ---- HTTP mode: BlinkitAuth session persistence ----
    session_file,   \* the saved session record, or NoFile
    client_token,   \* the client's auth token ("None" when it holds none)
    client_cookies, \* BlinkitAPIClient.session_cookies
    current_login,  \* BlinkitAuth.current_login: the token of the LoginResponse, or "None"
    today,          \* the clock, in days
    loaded,         \* what the last load_session returned: "none", "True", "False"
    \* ---- HTTP mode: argument validation of the API modules ----
    val_call,        \* the last call: [op, quantity, text]
    val_outcome,     \* how it ended: "none", "ValueError", "ValidationError", "returned", "raised"
    requests_issued, \* number of requests handed to the HTTP session so far
    cache_held,      \* BlinkitCart._cart_cache here: "None" or "cart"
    jar_cookies,     \* the client's session_cookies, as updated from responses
    \* ---- page mode: CartService.remove_from_cart ----
    removal,         \* the last remove_from_cart call: [called, quantity, clicks], clicks = its '-' clicks
    \* ---- HTTP mode: BlinkitAuth.login_with_phone ----
    lgPc,            \* "idle", "loop", "done"
    lgIdx,           \* 1-based position of the for loop in login_endpoints
    server_answers,  \* what the service would answer each login endpoint if asked
    lgRequested,     \* the endpoints a request was sent to, in order
    lgLastError,     \* the local last_error
    login_result,    \* "none", "otp_sent", "AuthenticationError", "ValidationError"
    \* ---- HTTP mode: the identity of parsed products, cart items, addresses ----
    id_parser,       \* the parser that is given the data: "none", "cart_item", "address", "product"
    id_fields,       \* the values of the data's identity fields, in the order the parser reads them
    id_record,       \* what the parser returned: NotParsed, NoRecord or [id |-> text]
    \* ---- HTTP mode: BlinkitCheckout._parse_order_response ----
    order_response,  \* the response being parsed: [status, total_amount], or NoOrderResponse
    order_parsed,    \* NotParsed, [kind |-> "Order", status], or [kind |-> "OrderError"]
    \* ---- HTTP mode: prices and amounts ----
    money_source,    \* what is extracted: "none", "product_price", "cart_amount", "cart_item_price"
    money_fields,    \* the values of the fields read, in the order they are read
    money_result,    \* NotParsed, [kind |-> "number", n], or [kind |-> "no item"]
    \* ---- the multi-step workflows and a cancellation request ----
    cancel_signalled, \* the caller has asked to cancel the workflow that is running
    \* ---- HTTP mode: BlinkitCheckout.place_order ----
    apoPc,           \* "idle", "loop", "done"
    apoIdx,          \* 1-based position of the for loop in order_endpoints
    apo_posted,      \* the posts made: <<[endpoint, placed]>>, placed = classified as a placement
    apo_response,    \* the last response, or NoOrderResponse
    apo_result,      \* "none", "Order", "OrderError"
    surfaced,        \* history: the <<query, product>> pairs a completed search rendered
    auth_tokens,     \* BlinkitAPIClient.auth_tokens: token type -> value or "None"
    session_cookies, \* BlinkitAPIClient.session_cookies: name -> value or "absent"
    api_session,     \* the JSON document in the API session file, or NoApiSession
    save_ret,        \* what the last save_auth_tokens_to_session returned ("none" once the client changed)
    fresh,           \* the fresh client that loaded after the last save, with what the load returned
    selPc,           \* search_and_add_to_cart: "idle", "search", "add", "done"
    selArgs,         \* its arguments: product_index, quantity
    selFound,        \* len(search_result.products)
    selCalls,        \* the service calls it made, in order, with the position selected
    selResult,       \* the dict it returned: success, error
    shop_page,       \* what the page shows: the closed notice, the address items, Proceed, the cart button, the screen
    closedCall       \* the last place_order / select_address call on that page: clicks, return value, the page before it

httpVars == <<op, pc, idx, last_error, requested, outcomes, attempt,
              last_exception, reqLog, reqResult, result, cart_cache>>

chkVars == <<chkOp, chkPc, chkIdx, probes, chkResult>>

pageVars == <<rendered, cartQty, cap, known_products, current_query>>

crtVars == <<crtPc, product_id, quantity, card, lookup, cardHow, addVisible, plusFound,
             items_to_add, loop_i, clicks, searches, limitSeenAt, limitHit, out>>

parseVars == <<cart_data, parsed>>

viewVars == <<drawer_view, items_text>>

flowVars == <<flowPc, visible_markers, checkout_result, flow_steps>>

wfVars == <<wfArgs, wfPc, workflow_result, wfCalls, wfFailedAt>>

addrVars == <<role_cards, text_cards, selected, addrCalls>>

srvVars == <<auth_page, order_page, pages_created, closed_pages, toolPc, guard_ok>>

sessVars == <<session_started, http_session, sent_on>>

authVars == <<session_file, client_token, client_cookies, current_login, today, loaded>>

valVars == <<val_call, val_outcome, requests_issued, cache_held, jar_cookies>>

rmVars == <<removal>>

loginVars == <<lgPc, lgIdx, server_answers, lgRequested, lgLastError, login_result>>

identVars == <<id_parser, id_fields, id_record>>

orderVars == <<order_response, order_parsed>>

moneyVars == <<money_source, money_fields, money_result>>

cancelVars == <<cancel_signalled>>

apoVars == <<apoPc, apoIdx, apo_posted, apo_response, apo_result>>

srchVars == <<surfaced>>

tokVars == <<auth_tokens, session_cookies, api_session, save_ret, fresh>>

selVars == <<selPc, selArgs, selFound, selCalls, selResult>>

shopVars == <<shop_page, closedCall>>

vars == <<httpVars, chkVars, pageVars, crtVars, parseVars, viewVars, flowVars, wfVars, addrVars, srvVars, sessVars, authVars, valVars, rmVars, loginVars, identVars, orderVars, moneyVars, cancelVars, apoVars, srchVars, tokVars, selVars, shopVars>>

nonHttpVars == <<chkVars, pageVars, crtVars, parseVars, viewVars, flowVars, wfVars, addrVars, srvVars, sessVars, authVars, valVars, rmVars, loginVars, identVars, orderVars, moneyVars, cancelVars, apoVars, srchVars, tokVars, selVars, shopVars>>
nonChkVars == <<httpVars, pageVars, crtVars, parseVars, viewVars, flowVars, wfVars, addrVars, srvVars, sessVars, authVars, valVars, rmVars, loginVars, identVars, orderVars, moneyVars, cancelVars, apoVars, srchVars, tokVars, selVars, shopVars>>
nonCrtVars == <<httpVars, chkVars, parseVars, viewVars, flowVars, wfVars, addrVars, srvVars, sessVars, authVars, valVars, rmVars, loginVars, identVars, orderVars, moneyVars, cancelVars, apoVars, srchVars, tokVars, selVars, shopVars>>
nonParseVars == <<httpVars, chkVars, pageVars, crtVars, viewVars, flowVars, wfVars, addrVars, srvVars, sessVars, authVars, valVars, rmVars, loginVars, identVars, orderVars, moneyVars, cancelVars, apoVars, srchVars, tokVars, selVars, shopVars>>
nonViewVars == <<httpVars, chkVars, pageVars, crtVars, parseVars, flowVars, wfVars, addrVars, srvVars, sessVars, authVars, valVars, rmVars, loginVars, identVars, orderVars, moneyVars, cancelVars, apoVars, srchVars, tokVars, selVars, shopVars>>
nonFlowVars == <<httpVars, chkVars, pageVars, crtVars, parseVars, viewVars, wfVars, addrVars, srvVars, sessVars, authVars, valVars, rmVars, loginVars, identVars, orderVars, moneyVars, cancelVars, apoVars, srchVars, tokVars, selVars, shopVars>>
nonWfVars == <<httpVars, chkVars, pageVars, crtVars, parseVars, viewVars, flowVars, addrVars, srvVars, sessVars, authVars, valVars, rmVars, loginVars, identVars, orderVars, moneyVars, cancelVars, apoVars, srchVars, tokVars, selVars, shopVars>>
nonAddrVars == <<httpVars, chkVars, pageVars, crtVars, parseVars, viewVars, flowVars, wfVars, srvVars, sessVars, authVars, valVars, rmVars, loginVars, identVars, orderVars, moneyVars, cancelVars, apoVars, srchVars, tokVars, selVars, shopVars>>
nonSrvVars == <<httpVars, chkVars, pageVars, crtVars, parseVars, viewVars, flowVars, wfVars, addrVars, sessVars, authVars, valVars, rmVars, loginVars, identVars, orderVars, moneyVars, cancelVars, apoVars, srchVars, tokVars, selVars, shopVars>>
nonSessVars == <<httpVars, chkVars, pageVars, crtVars, parseVars, viewVars, flowVars, wfVars, addrVars, srvVars, authVars, valVars, rmVars, loginVars, identVars, orderVars, moneyVars, cancelVars, apoVars, srchVars, tokVars, selVars, shopVars>>
nonAuthVars == <<httpVars, chkVars, pageVars, crtVars, parseVars, viewVars, flowVars, wfVars, addrVars, srvVars, sessVars, valVars, rmVars, loginVars, identVars, orderVars, moneyVars, cancelVars, apoVars, srchVars, tokVars, selVars, shopVars>>
nonValVars == <<httpVars, chkVars, pageVars, crtVars, parseVars, viewVars, flowVars, wfVars, addrVars, srvVars, sessVars, authVars, rmVars, loginVars, identVars, orderVars, moneyVars, cancelVars, apoVars, srchVars, tokVars, selVars, shopVars>>
nonRmVars == <<httpVars, chkVars, pageVars, crtVars, parseVars, viewVars, flowVars, wfVars, addrVars, srvVars, sessVars, authVars, valVars, loginVars, identVars, orderVars, moneyVars, cancelVars, apoVars, srchVars, tokVars, selVars, shopVars>>
nonPageRmVars == <<httpVars, chkVars, crtVars, parseVars, viewVars, flowVars, wfVars, addrVars, srvVars, sessVars, authVars, valVars, loginVars, identVars, orderVars, moneyVars, cancelVars, apoVars, srchVars, tokVars, selVars, shopVars>>
nonLoginVars == <<httpVars, chkVars, pageVars, crtVars, parseVars, viewVars, flowVars, wfVars, addrVars, srvVars, sessVars, authVars, valVars, rmVars, identVars, orderVars, moneyVars, cancelVars, apoVars, srchVars, tokVars, selVars, shopVars>>
nonIdentVars == <<httpVars, chkVars, pageVars, crtVars, parseVars, viewVars, flowVars, wfVars, addrVars, srvVars, sessVars, authVars, valVars, rmVars, loginVars, orderVars, moneyVars, cancelVars, apoVars, srchVars, tokVars, selVars, shopVars>>
nonOrderVars == <<httpVars, chkVars, pageVars, crtVars, parseVars, viewVars, flowVars, wfVars, addrVars, srvVars, sessVars, authVars, valVars, rmVars, loginVars, identVars, moneyVars, cancelVars, apoVars, srchVars, tokVars, selVars, shopVars>>
nonMoneyVars == <<httpVars, chkVars, pageVars, crtVars, parseVars, viewVars, flowVars, wfVars, addrVars, srvVars, sessVars, authVars, valVars, rmVars, loginVars, identVars, orderVars, cancelVars, apoVars, srchVars, tokVars, selVars, shopVars>>
nonCancelVars == <<httpVars, chkVars, pageVars, crtVars, parseVars, viewVars, flowVars, wfVars, addrVars, srvVars, sessVars, authVars, valVars, rmVars, loginVars, identVars, orderVars, moneyVars, apoVars, srchVars, tokVars, selVars, shopVars>>
nonApoVars == <<httpVars, chkVars, pageVars, crtVars, parseVars, viewVars, flowVars, wfVars, addrVars, srvVars, sessVars, authVars, valVars, rmVars, loginVars, identVars, orderVars, moneyVars, cancelVars, srchVars, tokVars, selVars, shopVars>>
nonSrchVars == <<httpVars, chkVars, pageVars, crtVars, parseVars, viewVars, flowVars, wfVars, addrVars, srvVars, sessVars, authVars, valVars, rmVars, loginVars, identVars, orderVars, moneyVars, cancelVars, apoVars, tokVars, selVars, shopVars>>

(***************************************************************************)
(* Responses.  A response is the value _make_request hands back: the       *)
(* parsed JSON body or an error structure.  Only the features the          *)
(* classifiers read are kept.                                              *)
(***************************************************************************)
EmptyBody ==    \* {} : json of an empty text, or an empty object
    [shape |-> "dict", success |-> "absent", status |-> "absent", error |-> "absent",
     cart |-> FALSE, message |-> "absent", items |-> FALSE, addresses |-> "absent",
     data |-> "absent", other |-> FALSE]

SuccessFlagBody == [EmptyBody EXCEPT !.success = "true"]
BusinessErrorBody == [EmptyBody EXCEPT !.error = "set", !.message = "plain"]
RawBody == [EmptyBody EXCEPT !.other = TRUE]          \* {"raw_response": text}
CartBody == [EmptyBody EXCEPT !.cart = TRUE, !.error = "set"]
ItemsBody == [EmptyBody EXCEPT !.items = TRUE, !.error = "set"]
ListBody == [EmptyBody EXCEPT !.shape = "list"]       \* a JSON array
AddressesBody == [EmptyBody EXCEPT !.addresses = "list", !.error = "set"]
AddressesScalarBody == [EmptyBody EXCEPT !.addresses = "scalar", !.error = "set"]
DataListBody == [EmptyBody EXCEPT !.data = "list", !.error = "set"]
NullMessageBody == [EmptyBody EXCEPT !.success = "true", !.message = "nonstring"]

Bodies == {EmptyBody, SuccessFlagBody, BusinessErrorBody, RawBody, CartBody, ItemsBody,
           ListBody, AddressesBody, AddressesScalarBody, DataListBody, NullMessageBody}

\* {"error": True, "status": <status>, "message": response_text[:500]}
HttpErrorStruct(text) ==
    [EmptyBody EXCEPT !.error = "set", !.status = "other", !.message = text]

\* {"error": True, "message": str(last_exception) or "Max retries exceeded"}
RetriesExhaustedStruct == [EmptyBody EXCEPT !.error = "set", !.message = "plain"]

\* `not response`
Falsy(r) ==
    /\ r.shape = "dict"
    /\ r.success = "absent" /\ r.status = "absent" /\ r.error = "absent"
    /\ ~r.cart /\ r.message = "absent" /\ ~r.items
    /\ r.addresses = "absent" /\ r.data = "absent" /\ ~r.other

(***************************************************************************)
(* Classifiers.  Each yields "true", "false" or the exception it raises.   *)
(***************************************************************************)
_is_successful_cart_operation(r) ==
    IF Falsy(r) THEN "false"
    ELSE IF r.shape = "list" THEN "AttributeError"         \* list has no .get
    ELSE IF r.message = "nonstring" THEN "AttributeError"  \* the list is built eagerly
    ELSE IF \/ r.success = "true"
            \/ r.status = "success"
            \/ r.error \in {"absent", "null"}
            \/ r.cart
            \/ r.message = "success"
         THEN "true" ELSE "false"

_is_valid_cart_response(r) ==
    IF Falsy(r) THEN "false"
    ELSE IF r.shape = "list" THEN "false"     \* membership tests on a list of objects
    ELSE IF r.items \/ r.cart THEN "true" ELSE "false"

\* never raises: the whole body is inside try/except
_parse_cart_response(r) == "Cart"

_is_valid_addresses_response(r) ==
    IF Falsy(r) THEN "false"
    ELSE IF r.shape = "list" THEN "true"
    ELSE IF r.addresses # "absent" \/ r.data = "list" THEN "true" ELSE "false"

\* yields "Addresses" or the exception raised
_parse_addresses_response(r) ==
    IF r.shape = "list" THEN "AttributeError"            \* response.get on a list
    ELSE IF r.addresses = "scalar" THEN "TypeError"     \* for addr_data in 5
    ELSE "Addresses"

(***************************************************************************)
(* The endpoint lists.                                                     *)
(***************************************************************************)
cart_endpoints == <<"/v2/cart/", "/api/cart", "/v1/cart/details", "/cart">>
add_endpoints == <<"/v2/cart/add/", "/api/cart/add", "/v1/cart/items", "/cart/add">>
clear_endpoints == <<"/v2/cart/clear/", "/api/cart/clear", "/v1/cart/clear", "/cart/clear">>
address_endpoints == <<"/v2/addresses/", "/api/addresses", "/v1/user/addresses", "/addresses">>

ChainOps == {"get_cart", "add_to_cart", "clear_cart", "get_addresses"}
MutatingOps == {"add_to_cart", "clear_cart"}

Endpoints(o) ==
    CASE o = "get_cart" -> cart_endpoints
      [] o = "add_to_cart" -> add_endpoints
      [] o = "clear_cart" -> clear_endpoints
      [] o = "get_addresses" -> address_endpoints

NoResult == [kind |-> "none", val |-> "none", detail |-> "none"]
NoReq == [kind |-> "none", exc |-> "None", body |-> EmptyBody, errstruct |-> FALSE]

(***************************************************************************)
(* BlinkitAPIClient._make_request: one call is a retry loop of at most     *)
(* max_retries transport attempts.                                         *)
(***************************************************************************)
max_retries == 3

AttemptEv(fault, status) == [ev |-> "attempt", fault |-> fault, status |-> status, d |-> 0]
SleepEv(why, d) == [ev |-> "sleep", fault |-> why, status |-> 0, d |-> d]

\* wait_time = 2 ** attempt
wait_time_doubled(a) == 2 ^ (a + 1)
wait_time(a) == 2 ^ a

\* except (RateLimitError, AuthenticationError): raise
ReraisedFaults_onlyRateLimit == {"RateLimitError"}
ReraisedFaults == {"RateLimitError", "AuthenticationError"}

\* The except clause that handles an exception raised inside the try
\* (the first clause that matches).
except_clause(e) ==
    IF e = "ClientError" THEN "client_error"
    ELSE IF e \in ReraisedFaults THEN "reraise"
    ELSE "unexpected"

\* The branch taken on response.status
status_branch(status) ==
    IF status = 401 THEN "AuthenticationError"
    ELSE IF status = 429 THEN "RateLimitError"
    ELSE IF status >= 400 THEN "error_struct"
    ELSE "parse"

RaiseOf(e) == [kind |-> "raise", exc |-> e, body |-> EmptyBody, errstruct |-> FALSE]
ReturnOf(r, es) == [kind |-> "return", exc |-> "None", body |-> r, errstruct |-> es]

(***************************************************************************)
(* The bodies of the chains' try blocks: what one candidate's answer does. *)
(* classified: the success predicate's verdict ("none" if it was never     *)
(* reached or raised); fault: the exception the except clause caught;      *)
(* value: what the method returns ("none": it goes on to the next one).    *)
(***************************************************************************)
Verdict(c, f, v) == [classified |-> c, fault |-> f, value |-> v]

CartMutationTry(ret) ==
    IF ret.kind = "raise" THEN Verdict("none", ret.exc, "none")
    ELSE LET c == _is_successful_cart_operation(ret.body) IN
         IF c = "true" THEN Verdict("success", "None", "True")
         ELSE IF c = "false" THEN Verdict("nonsuccess", "None", "none")
         ELSE Verdict("none", c, "none")

GetCartTry(ret) ==
    IF ret.kind = "raise" THEN Verdict("none", ret.exc, "none")
    ELSE IF _is_valid_cart_response(ret.body) = "true"
         THEN Verdict("success", "None", _parse_cart_response(ret.body))
         ELSE Verdict("nonsuccess", "None", "none")

GetAddressesTry(ret) ==
    IF ret.kind = "raise" THEN Verdict("none", ret.exc, "none")
    ELSE IF _is_valid_addresses_response(ret.body) = "true"
         THEN LET p == _parse_addresses_response(ret.body) IN
              IF p = "Addresses" THEN Verdict("success", "None", p)
              ELSE Verdict("success", p, "none")
         ELSE Verdict("nonsuccess", "None", "none")

TryBlock(o, ret) ==
    CASE o \in MutatingOps -> CartMutationTry(ret)
      [] o = "get_cart" -> GetCartTry(ret)
      [] o = "get_addresses" -> GetAddressesTry(ret)

\* The rest of the for-loop iteration once _make_request has ended with ret.
ChainAfter_same_candidate(ret) ==
    LET h == TryBlock(op, ret) IN
    /\ outcomes' = Append(outcomes, [endpoint |-> Endpoints(op)[idx],
                                     classified |-> h.classified, fault |-> h.fault])
    /\ IF h.value # "none"
       THEN /\ result' = [kind |-> "return", val |-> h.value, detail |-> "None"]
            /\ pc' = "done"
            /\ cart_cache' = IF op \in MutatingOps THEN "None"
                             ELSE IF op = "get_cart" THEN h.value ELSE cart_cache
            /\ UNCHANGED <<idx, last_error>>
       ELSE /\ last_error' = IF h.fault # "None" THEN h.fault ELSE last_error
            /\ pc' = "loop"
            /\ UNCHANGED <<idx, result, cart_cache>>
ChainAfter(ret) ==
    LET h == TryBlock(op, ret) IN
    /\ outcomes' = Append(outcomes, [endpoint |-> Endpoints(op)[idx],
                                     classified |-> h.classified, fault |-> h.fault])
    /\ IF h.value # "none"
       THEN /\ result' = [kind |-> "return", val |-> h.value, detail |-> "None"]
            /\ pc' = "done"
            /\ cart_cache' = IF op \in MutatingOps THEN "None"
                             ELSE IF op = "get_cart" THEN h.value ELSE cart_cache
            /\ UNCHANGED <<idx, last_error>>
       ELSE /\ last_error' = IF h.fault # "None" THEN h.fault ELSE last_error
            /\ idx' = idx + 1
            /\ pc' = "loop"
            /\ UNCHANGED <<result, cart_cache>>

\* _make_request ends (returns or raises) and the caller's loop body goes on.
EndRequest(log, ret) ==
    /\ reqLog' = log
    /\ reqResult' = ret
    /\ ChainAfter(ret)
    /\ UNCHANGED <<op, requested, attempt, last_exception>>

\* The retry loop after an except clause that did not re-raise: sleep and
\* `continue` when attempt < max_retries - 1, otherwise the loop is over.
AfterTransportFault(log, exc_text, delay) ==
    LET log2 == IF attempt < max_retries - 1
                THEN Append(log, SleepEv("backoff", delay)) ELSE log IN
    IF attempt + 1 < max_retries
    THEN /\ reqLog' = log2
         /\ attempt' = attempt + 1
         /\ last_exception' = exc_text
         /\ UNCHANGED <<op, pc, idx, last_error, requested, outcomes, reqResult,
                        result, cart_cache>>
    ELSE EndRequest(log2, ReturnOf(RetriesExhaustedStruct, TRUE))

\* An exception e raised inside the try of the current attempt.
OnException(e, log) ==
    LET clause == except_clause(e) IN
    CASE clause = "reraise" -> EndRequest(log, RaiseOf(e))
      [] clause = "client_error" -> AfterTransportFault(log, "Network error", wait_time(attempt))
      [] clause = "unexpected" -> AfterTransportFault(log, "Unexpected error", 1)

(***************************************************************************)
(* Actions of HTTP mode                                                    *)
(***************************************************************************)
StartChain(o) ==
    /\ op' = o
    /\ pc' = "loop"
    /\ idx' = 1
    /\ last_error' = "None"
    /\ requested' = <<>>
    /\ outcomes' = <<>>
    /\ attempt' = 0
    /\ last_exception' = "None"
    /\ reqLog' = <<>>
    /\ reqResult' = NoReq
    /\ result' = NoResult
    /\ UNCHANGED cart_cache

\* BlinkitCart.add_to_cart(product_id, quantity)
Call_add_to_cart ==
    /\ pc = "idle"
    /\ \E qty \in {0, 1, 2} :
         IF qty <= 0
         THEN /\ op' = "add_to_cart"
              /\ pc' = "done"
              /\ result' = [kind |-> "raise", val |-> "ValueError", detail |-> "None"]
              /\ UNCHANGED <<idx, last_error, requested, outcomes, attempt,
                             last_exception, reqLog, reqResult, cart_cache>>
         ELSE StartChain("add_to_cart")
    /\ UNCHANGED nonHttpVars

Call_clear_cart ==
    /\ pc = "idle" /\ StartChain("clear_cart")
    /\ UNCHANGED nonHttpVars

Call_get_cart ==
    /\ pc = "idle" /\ StartChain("get_cart")
    /\ UNCHANGED nonHttpVars

Call_get_addresses ==
    /\ pc = "idle" /\ StartChain("get_addresses")
    /\ UNCHANGED nonHttpVars

\* `for endpoint in ...:` takes the next endpoint and calls client.get/post,
\* i.e. _make_request up to (and without) its retry loop's first attempt.
BeginRequest ==
    /\ pc = "loop"
    /\ idx <= Len(Endpoints(op))
    /\ pc' = "request"
    /\ requested' = Append(requested, Endpoints(op)[idx])
    /\ attempt' = 0
    /\ last_exception' = "None"
    /\ reqResult' = NoReq
    /\ \E throttled \in BOOLEAN :
         reqLog' = IF throttled THEN <<SleepEv("rate_limit_delay", 0)>> ELSE <<>>
    /\ UNCHANGED <<op, idx, last_error, outcomes, result, cart_cache>>
    /\ UNCHANGED nonHttpVars

\* The for loop is exhausted: the code after the loop.
Exhausted ==
    /\ pc = "loop"
    /\ idx > Len(Endpoints(op))
    /\ pc' = "done"
    /\ result' = CASE op \in MutatingOps ->
                        [kind |-> "raise", val |-> "CartError", detail |-> last_error]
                   [] op = "get_cart" ->
                        [kind |-> "return", val |-> "EmptyCart", detail |-> "None"]
                   [] op = "get_addresses" ->
                        [kind |-> "return", val |-> "EmptyList", detail |-> "None"]
    /\ cart_cache' = IF op = "get_cart" THEN "EmptyCart" ELSE cart_cache
    /\ UNCHANGED <<op, idx, last_error, requested, outcomes, attempt, last_exception,
                   reqLog, reqResult>>
    /\ UNCHANGED nonHttpVars

\* One attempt whose session.request / response.text raises.
AttemptTransportFault ==
    /\ pc = "request"
    /\ \E e \in {"ClientError", "TimeoutError"} :
         OnException(e, Append(reqLog, AttemptEv(e, 0)))
    /\ UNCHANGED nonHttpVars

\* One attempt answered by the server: the branch on response.status.
AttemptAnswered ==
    /\ pc = "request"
    /\ \E status \in {200, 401, 429, 404, 500}, body \in Bodies, text \in {"plain", "success"} :
         LET log == Append(reqLog, AttemptEv("None", status))
             b == status_branch(status) IN
         CASE b = "parse" -> EndRequest(log, ReturnOf(body, FALSE))
           [] b = "error_struct" -> EndRequest(log, ReturnOf(HttpErrorStruct(text), TRUE))
           [] OTHER -> OnException(b, log)
    /\ UNCHANGED nonHttpVars

\* The caller takes the result; the next operation may start.
Return ==
    /\ pc = "done"
    /\ op' = "idle"
    /\ pc' = "idle"
    /\ idx' = 0
    /\ last_error' = "None"
    /\ requested' = <<>>
    /\ outcomes' = <<>>
    /\ attempt' = 0
    /\ last_exception' = "None"
    /\ reqLog' = <<>>
    /\ reqResult' = NoReq
    /\ result' = NoResult
    /\ UNCHANGED cart_cache
    /\ UNCHANGED nonHttpVars

HttpNext ==
    \/ Call_add_to_cart
    \/ Call_clear_cart
    \/ Call_get_cart
    \/ Call_get_addresses
    \/ BeginRequest
    \/ Exhausted
    \/ AttemptTransportFault
    \/ AttemptAnswered
    \/ Return


(***************************************************************************)
(* Properties of HTTP mode                                                 *)
(***************************************************************************)
\* Number of attempt events among the first i events of the current call.
RECURSIVE AttemptsUpTo(_)
AttemptsUpTo(i) ==
    IF i = 0 THEN 0
    ELSE AttemptsUpTo(i - 1) + (IF reqLog[i].ev = "attempt" THEN 1 ELSE 0)

\* C1: the candidate endpoints are requested strictly in listed order, and a
\* response classified as success ends the operation with that success: no
\* later candidate is requested.
C1_FirstSuccessReturns ==
    op \in ChainOps =>
        /\ requested = SubSeq(Endpoints(op), 1, Len(requested))
        /\ \A i \in 1..Len(outcomes) :
             outcomes[i].classified = "success" =>
                 /\ i = Len(requested)
                 /\ pc = "done"
                 /\ result.kind = "return"

\* C2: a 401 / 429 answer to some candidate ends the operation with that
\* authentication / rate-limit fault; no later candidate is requested.
C2_AuthRateLimitPropagate ==
    \A i \in 1..Len(outcomes) :
        outcomes[i].fault \in {"AuthenticationError", "RateLimitError"} =>
            /\ i = Len(requested)
            /\ pc = "done"
            /\ result.kind = "raise"
            /\ result.val = outcomes[i].fault

\* C3: the terminal failure of an exhausted mutating chain carries the last
\* fault observed among the candidates, never None.
C3_TerminalFailureCarriesFault ==
    (pc = "done" /\ result.kind = "raise" /\ result.val = "CartError") =>
        result.detail # "None"

\* C4: one _make_request call makes at most max_retries attempts; after its
\* k-th attempt fails with a network error it sleeps 2^(k-1) when k < max_retries
\* and the next event is the next attempt; the max_retries-th failure is
\* followed by no sleep and no attempt: the call returns the error structure.
C4_RetryBackoff ==
    /\ AttemptsUpTo(Len(reqLog)) <= max_retries
    /\ \A i \in 1..Len(reqLog) :
         (reqLog[i].ev = "attempt" /\ reqLog[i].fault = "ClientError") =>
             LET k == AttemptsUpTo(i) IN
             IF k < max_retries
             THEN /\ i < Len(reqLog)
                  /\ reqLog[i + 1] = SleepEv("backoff", 2 ^ (k - 1))
                  /\ IF i + 1 < Len(reqLog)
                     THEN reqLog[i + 2].ev = "attempt"
                     ELSE pc = "request" /\ attempt = k
             ELSE /\ i = Len(reqLog)
                  /\ pc # "request"
                  /\ reqResult = ReturnOf(RetriesExhaustedStruct, TRUE)

\* C4 witness: three network failures in one call, with sleeps 1 and 2 between them.
C4_Witness ==
    /\ Len(reqLog) >= 5
    /\ AttemptsUpTo(Len(reqLog)) = max_retries
    /\ \A i \in 1..Len(reqLog) : reqLog[i].ev = "attempt" => reqLog[i].fault = "ClientError"
    /\ reqResult.errstruct

\* C5: an attempt answered with 401, 429 or another status >= 400 is the last
\* event of its call: the call raises AuthenticationError / RateLimitError or
\* returns the error structure, and the endpoint is not attempted again.
C5_NoRetryOnHttpFailure ==
    \A i \in 1..Len(reqLog) :
        (reqLog[i].ev = "attempt" /\ reqLog[i].status >= 400) =>
            /\ i = Len(reqLog)
            /\ pc # "request"
            /\ reqResult = CASE reqLog[i].status = 401 -> RaiseOf("AuthenticationError")
                             [] reqLog[i].status = 429 -> RaiseOf("RateLimitError")
                             [] OTHER -> ReturnOf(reqResult.body, TRUE)
            /\ reqResult.kind = "return" => reqResult.body.error = "set"

\* C5 witness: a 401 on the second attempt (after a network failure) ends the call.
C5_Witness ==
    /\ Len(reqLog) >= 3
    /\ reqLog[Len(reqLog)].status = 401
    /\ reqResult = RaiseOf("AuthenticationError")

(***************************************************************************)
(* Page mode: the selector chains of CheckoutService.  What a selector     *)
(* matches when it is probed is the page's choice: count in 0..MaxMatches, *)
(* visible or not, and whether the click times out.                        *)
(***************************************************************************)
MaxMatches == 2

proceed_buttons == <<"button:has-text('Proceed')", "button:has-text('Continue')",
                     "div:has-text('Proceed')", "div:has-text('Continue')">>
cod_selectors == <<"text='Cash on Delivery'", "text='COD'",
                   "div:has-text('Cash on Delivery')", "div:has-text('Pay on Delivery')",
                   "label:has-text('Cash on Delivery')", "button:has-text('Cash on Delivery')">>
place_order_buttons == <<"button:has-text('Place Order')", "button:has-text('Confirm Order')",
                         "div:has-text('Place Order')", "div:has-text('Confirm Order')",
                         "button:has-text('Order Now')">>

SelectorOps == {"proceed_to_pay", "select_cod", "place_cod_order"}

Selectors(o) ==
    CASE o = "proceed_to_pay" -> proceed_buttons
      [] o = "select_cod" -> cod_selectors
      [] o = "place_cod_order" -> place_order_buttons

\* A locator action that needs one element (is_visible, click) raises a
\* strict-mode violation when the locator matches several.
StrictViolation(count) == count > 1

\* `if await btn.count() > 0 and await btn.is_visible(): await btn.click()`
\* yields "skip" (condition false), "click" (clicked), or "raise".
probe_visible_then_click(count, visible, clickTimesOut) ==
    IF ~(count > 0) THEN "skip"
    ELSE IF StrictViolation(count) THEN "raise"        \* is_visible()
    ELSE IF ~visible THEN "skip"
    ELSE IF clickTimesOut THEN "raise"                 \* click()
    ELSE "click"

\* `if await cod_option.count() > 0: await cod_option.click()`
probe_then_click(count, visible, clickTimesOut) ==
    IF ~(count > 0) THEN "skip"
    ELSE IF StrictViolation(count) THEN "raise"        \* click()
    ELSE IF ~visible \/ clickTimesOut THEN "raise"     \* click() waits for visibility
    ELSE "click"

Probe(o, count, visible, clickTimesOut) ==
    IF o = "select_cod" THEN probe_then_click(count, visible, clickTimesOut)
    ELSE probe_visible_then_click(count, visible, clickTimesOut)

Call_selector_chain ==
    /\ chkPc = "idle"
    /\ \E o \in SelectorOps : chkOp' = o
    /\ chkPc' = "loop"
    /\ chkIdx' = 1
    /\ probes' = <<>>
    /\ chkResult' = "none"
    /\ UNCHANGED nonChkVars

\* One iteration of `for btn_selector in ...:` inside the method's try.
ProbeSelector ==
    /\ chkPc = "loop"
    /\ chkIdx <= Len(Selectors(chkOp))
    /\ \E count \in 0..MaxMatches, visible \in BOOLEAN, clickTimesOut \in BOOLEAN :
         LET did == Probe(chkOp, count, visible, clickTimesOut) IN
         /\ probes' = Append(probes, [selector |-> Selectors(chkOp)[chkIdx],
                                      count |-> count, did |-> did])
         /\ CASE did = "skip" ->
                   /\ chkIdx' = chkIdx + 1
                   /\ UNCHANGED <<chkPc, chkResult>>
              [] did = "click" ->                    \* return True
                   /\ chkPc' = "done"
                   /\ chkResult' = "True"
                   /\ UNCHANGED chkIdx
              [] did = "raise" ->                    \* except Exception: return False
                   /\ chkPc' = "done"
                   /\ chkResult' = "False"
                   /\ UNCHANGED chkIdx
    /\ UNCHANGED chkOp
    /\ UNCHANGED nonChkVars

\* The selector list is exhausted: "Could not find ..." and return False.
SelectorsExhausted ==
    /\ chkPc = "loop"
    /\ chkIdx > Len(Selectors(chkOp))
    /\ chkPc' = "done"
    /\ chkResult' = "False"
    /\ UNCHANGED <<chkOp, chkIdx, probes>>
    /\ UNCHANGED nonChkVars

ChkReturn ==
    /\ chkPc = "done"
    /\ chkOp' = "idle"
    /\ chkPc' = "idle"
    /\ chkIdx' = 0
    /\ probes' = <<>>
    /\ chkResult' = "none"
    /\ UNCHANGED nonChkVars

ChkNext ==
    \/ Call_selector_chain
    \/ ProbeSelector
    \/ SelectorsExhausted
    \/ ChkReturn

(***************************************************************************)
(* Page mode: CartService.add_to_cart, with the searches that feed         *)
(* manager.known_products.  The page shows product cards; a card shows     *)
(* ADD while its product is not in the cart and the -/+ counter otherwise. *)
(***************************************************************************)
MaxQuantity == 3        \* largest quantity a caller asks for
MaxCap == 3             \* largest per-item maximum of the source

Products == {"p1", "p2"}
Queries == {"milk", "butter"}

\* The display name the page shows on a product's card.
ProductName(p) == IF p = "p1" THEN "Amul Milk" ELSE "Amul Butter"

\* product_name.split()[0]
FirstWord(name) ==
    CASE name = "Amul Milk" -> "Amul"
      [] name = "Amul Butter" -> "Amul"

\* The renderings: sequences of distinct product ids.
Renderings ==
    {<<>>} \cup {<<p>> : p \in Products}
           \cup {<<p, q>> : <<p, q>> \in {pq \in Products \X Products : pq[1] # pq[2]}}

Range(seq) == {seq[k] : k \in 1..Len(seq)}

\* the cards of `view` that satisfy Keep, in page order
RECURSIVE FilterCards(_, _)
FilterCards(view, keep) ==
    IF view = <<>> THEN <<>>
    ELSE IF Head(view) \in keep THEN <<Head(view)>> \o FilterCards(Tail(view), keep)
    ELSE FilterCards(Tail(view), keep)

\* page.locator("div[role='button']").filter(has_text="ADD")
CardsWithAdd == FilterCards(rendered, {p \in Products : cartQty[p] = 0})

\* ... .filter(has_text="ADD").filter(has_text=<word>)
CardsWithAddAndText(word) ==
    FilterCards(rendered, {p \in Products : cartQty[p] = 0 /\ FirstWord(ProductName(p)) = word})

NoEntry == [source_query |-> "absent", name |-> "absent"]

NoOut == [reportedQty |-> 0, limitReported |-> FALSE, successPrinted |-> FALSE,
          errorPrinted |-> FALSE, notFoundPrinted |-> FALSE, fallbackPrinted |-> FALSE,
          unavailableWarned |-> FALSE, returned |-> "none"]

Click(btn, on, ok) == [btn |-> btn, on |-> on, ok |-> ok]

\* items_to_add after the ADD click: `items_to_add -= 1`
items_after_add_nodecrement(n) == n
items_after_add(n) == n - 1

\* current_qty = quantity - items_to_add + i + 1
current_qty(q, n, i) == q - n + i + 1

\* the `break` after the limit message was seen
break_on_limit_never(seen) == FALSE
break_on_limit(seen) == seen

crtLocals == <<card, lookup, cardHow, addVisible, plusFound, items_to_add, loop_i,
               clicks, searches, limitSeenAt, limitHit, out>>

\* ensure_started launches the browser: the home page with whatever product
\* cards the source shows; the source's per-item maximum is its own.
StartBrowser ==
    /\ crtPc = "closed"
    /\ crtPc' = "idle"
    /\ rendered' \in Renderings
    /\ cap' \in 1..MaxCap
    /\ UNCHANGED <<cartQty, known_products, current_query, product_id, quantity,
                   crtLocals, nonCrtVars>>

\* SearchService.search_product(query): current_query is set first; the page
\* then shows whatever the source renders (the old cards if the search failed).
search_product(query) ==
    /\ current_query' = query
    /\ rendered' \in Renderings

\* get_search_results: known_products[product_id] = {source_query, name} for
\* each card read; the other entries stay.
record_products_replacing(known, cards, query) ==
    [p \in Products |->
       IF p \in cards THEN [source_query |-> query, name |-> ProductName(p)] ELSE NoEntry]
record_products(known, cards, query) ==
    [p \in Products |->
       IF p \in cards THEN [source_query |-> query, name |-> ProductName(p)] ELSE known[p]]

\* the server's search tool: search_product, then get_search_results, which
\* records every card that shows ADD under the current query.
Search ==
    /\ crtPc = "idle"
    /\ \E query \in Queries :
         /\ search_product(query)
         /\ known_products' =
              record_products(known_products, {p \in Range(rendered') : cartQty[p] = 0}, query)
    /\ UNCHANGED <<cartQty, cap, crtVars, nonCrtVars>>

\* get_search_results on whatever the page shows (no search issued before it)
GetSearchResults ==
    /\ crtPc = "idle"
    /\ known_products' =
         record_products(known_products, {p \in Range(rendered) : cartQty[p] = 0}, current_query)
    /\ UNCHANGED <<rendered, cartQty, cap, current_query, crtVars, nonCrtVars>>

\* CartService.add_to_cart(product_id, quantity) is called.
Call_cart_add_to_cart ==
    /\ crtPc = "idle"
    /\ \E pid \in Products, qty \in 0..MaxQuantity :
         /\ product_id' = pid
         /\ quantity' = qty
    /\ crtPc' = "lookup"
    /\ UNCHANGED <<crtLocals, pageVars, nonCrtVars>>

\* `return` (or the except clause): the call is over.
Finish(o) ==
    /\ crtPc' = "done"
    /\ out' = [o EXCEPT !.returned = "None"]

\* Step 1: the card with the requested id is on the page.
LookupOnPage ==
    /\ crtPc = "lookup"
    /\ product_id \in Range(rendered)
    /\ card' = product_id
    /\ lookup' = "on_page"
    /\ cardHow' = "id"
    /\ crtPc' = "add"
    /\ UNCHANGED <<product_id, quantity, addVisible, plusFound, items_to_add, loop_i,
                   clicks, searches, limitSeenAt, limitHit, out, pageVars, nonCrtVars>>

\* Step 2: not on the page, but in known_products with a source query:
\* manager.search_product(source_query).
LookupReSearch ==
    /\ crtPc = "lookup"
    /\ product_id \notin Range(rendered)
    /\ known_products[product_id] # NoEntry
    /\ known_products[product_id].source_query # "None"
    /\ search_product(known_products[product_id].source_query)
    /\ searches' = Append(searches, known_products[product_id].source_query)
    /\ lookup' = "known"
    /\ crtPc' = "researched"
    /\ UNCHANGED <<product_id, quantity, card, cardHow, addVisible, plusFound,
                   items_to_add, loop_i, clicks, limitSeenAt, limitHit, out,
                   cartQty, cap, known_products, nonCrtVars>>

\* Step 2, no source query in the entry: "No source query found", return.
LookupNoQuery ==
    /\ crtPc = "lookup"
    /\ product_id \notin Range(rendered)
    /\ known_products[product_id] # NoEntry
    /\ known_products[product_id].source_query = "None"
    /\ lookup' = "known"
    /\ Finish([out EXCEPT !.notFoundPrinted = TRUE])
    /\ UNCHANGED <<product_id, quantity, card, cardHow, addVisible, plusFound,
                   items_to_add, loop_i, clicks, searches, limitSeenAt, limitHit,
                   pageVars, nonCrtVars>>

\* The id is neither on the page nor known: the first card that shows ADD
\* is taken ("Attempting to add first available product as fallback...").
LookupFirstCardFallback ==
    /\ crtPc = "lookup"
    /\ product_id \notin Range(rendered)
    /\ known_products[product_id] = NoEntry
    /\ Len(CardsWithAdd) > 0
    /\ card' = Head(CardsWithAdd)
    /\ lookup' = "unknown"
    /\ cardHow' = "first"
    /\ out' = [out EXCEPT !.notFoundPrinted = TRUE, !.fallbackPrinted = TRUE]
    /\ crtPc' = "add"
    /\ UNCHANGED <<product_id, quantity, addVisible, plusFound, items_to_add, loop_i,
                   clicks, searches, limitSeenAt, limitHit, pageVars, nonCrtVars>>

\* Neither on the page nor known, and no card shows ADD: return.
LookupNothing ==
    /\ crtPc = "lookup"
    /\ product_id \notin Range(rendered)
    /\ known_products[product_id] = NoEntry
    /\ Len(CardsWithAdd) = 0
    /\ lookup' = "unknown"
    /\ Finish([out EXCEPT !.notFoundPrinted = TRUE])
    /\ UNCHANGED <<product_id, quantity, card, cardHow, addVisible, plusFound,
                   items_to_add, loop_i, clicks, searches, limitSeenAt, limitHit,
                   pageVars, nonCrtVars>>

\* After the re-search: look the id up again, else match by the first word
\* of the recorded name among the cards that show ADD, else return.
AfterReSearch ==
    /\ crtPc = "researched"
    /\ LET byName == CardsWithAddAndText(FirstWord(known_products[product_id].name)) IN
       IF product_id \in Range(rendered)
       THEN /\ card' = product_id
            /\ cardHow' = "id"
            /\ crtPc' = "add"
            /\ UNCHANGED out
       ELSE IF Len(byName) > 0
       THEN /\ card' = Head(byName)
            /\ cardHow' = "name"
            /\ crtPc' = "add"
            /\ out' = [out EXCEPT !.notFoundPrinted = TRUE]
       ELSE /\ Finish([out EXCEPT !.notFoundPrinted = TRUE])
            /\ UNCHANGED <<card, cardHow>>
    /\ UNCHANGED <<product_id, quantity, lookup, addVisible, plusFound, items_to_add,
                   loop_i, clicks, searches, limitSeenAt, limitHit, pageVars, nonCrtVars>>

\* Step 3, ADD visible: click it once; items_to_add -= 1.
AddClick ==
    /\ crtPc = "add"
    /\ cartQty[card] = 0
    /\ \E ok \in BOOLEAN :
         /\ clicks' = Append(clicks, Click("ADD", card, ok))
         /\ addVisible' = TRUE
         /\ IF ok
            THEN /\ cartQty' = [cartQty EXCEPT ![card] = 1]
                 /\ items_to_add' = items_after_add(quantity)
                 /\ out' = [out EXCEPT !.reportedQty = 1]
                 /\ crtPc' = IF items_to_add' > 0 THEN "plus_find" ELSE "final"
            ELSE /\ Finish([out EXCEPT !.errorPrinted = TRUE])      \* click raised
                 /\ UNCHANGED <<cartQty, items_to_add>>
    /\ UNCHANGED <<product_id, quantity, card, lookup, cardHow, plusFound, loop_i,
                   searches, limitSeenAt, limitHit, rendered, cap, known_products,
                   current_query, nonCrtVars>>

\* Step 3, ADD not visible: go on to increment when the card shows the
\* counter, else "Cannot find ADD button or increment button" and return.
AddNotVisible ==
    /\ crtPc = "add"
    /\ \/ /\ cartQty[card] > 0                      \* the counter is shown
          /\ items_to_add' = quantity
          /\ crtPc' = IF items_to_add' > 0 THEN "plus_find" ELSE "final"
          /\ UNCHANGED out
       \/ /\ cartQty[card] = 0                      \* e.g. an out-of-stock card
          /\ Finish(out)
          /\ UNCHANGED items_to_add
    /\ UNCHANGED <<product_id, quantity, card, lookup, cardHow, addVisible, plusFound,
                   loop_i, clicks, searches, limitSeenAt, limitHit, pageVars, nonCrtVars>>

\* Step 4: locate the '+' control (three strategies); it is there once the
\* counter has rendered.
PlusFind ==
    /\ crtPc = "plus_find"
    /\ \E found \in IF cartQty[card] > 0 THEN BOOLEAN ELSE {FALSE} :
         /\ plusFound' = found
         /\ crtPc' = IF found THEN "plus_loop" ELSE "final"
    /\ loop_i' = 0
    /\ UNCHANGED <<product_id, quantity, card, lookup, cardHow, addVisible, items_to_add,
                   clicks, searches, limitSeenAt, limitHit, out, pageVars, nonCrtVars>>

\* One iteration of `for i in range(items_to_add)`: click '+', print the
\* progress, look for the limit message, break if it is seen.
PlusClick ==
    /\ crtPc = "plus_loop"
    /\ loop_i < items_to_add
    /\ \E ok \in BOOLEAN, seen \in BOOLEAN :
         LET refused == cartQty[card] >= cap IN
         /\ seen => (ok /\ refused)         \* the message shows only after a refusal
         /\ clicks' = Append(clicks, Click("+", card, ok))
         /\ IF ~ok
            THEN /\ Finish([out EXCEPT !.errorPrinted = TRUE])      \* click raised
                 /\ UNCHANGED <<cartQty, loop_i, limitSeenAt, limitHit>>
            ELSE /\ cartQty' = IF refused THEN cartQty
                               ELSE [cartQty EXCEPT ![card] = @ + 1]
                 /\ limitHit' = (limitHit \/ refused)
                 /\ limitSeenAt' = IF seen THEN Len(clicks') ELSE limitSeenAt
                 /\ out' = [out EXCEPT
                              !.reportedQty = current_qty(quantity, items_to_add, loop_i),
                              !.limitReported = seen]
                 /\ loop_i' = loop_i + 1
                 /\ crtPc' = IF break_on_limit(seen) \/ loop_i' >= items_to_add
                             THEN "final" ELSE "plus_loop"
    /\ UNCHANGED <<product_id, quantity, card, lookup, cardHow, addVisible, plusFound,
                   items_to_add, searches, rendered, cap, known_products, current_query,
                   nonCrtVars>>

\* Step 5: "Successfully added product to cart!" is printed, then the
\* "Sorry, can't take your order" modal is looked for and, when visible,
\* the WARNING line is printed; the method returns None either way.
FinalVerification ==
    /\ crtPc = "final"
    /\ \E modal_visible \in BOOLEAN :
         Finish([out EXCEPT !.successPrinted = TRUE,
                            !.unavailableWarned = modal_visible])
    /\ UNCHANGED <<product_id, quantity, card, lookup, cardHow, addVisible, plusFound,
                   items_to_add, loop_i, clicks, searches, limitSeenAt, limitHit,
                   pageVars, nonCrtVars>>

\* The caller (the server tool) takes the printed text; locals are gone.
CartReturn ==
    /\ crtPc = "done"
    /\ crtPc' = "idle"
    /\ product_id' = "none"
    /\ quantity' = 0
    /\ card' = "none"
    /\ lookup' = "none"
    /\ cardHow' = "none"
    /\ addVisible' = FALSE
    /\ plusFound' = FALSE
    /\ items_to_add' = 0
    /\ loop_i' = 0
    /\ clicks' = <<>>
    /\ searches' = <<>>
    /\ limitSeenAt' = 0
    /\ limitHit' = FALSE
    /\ out' = NoOut
    /\ UNCHANGED <<pageVars, nonCrtVars>>

(***************************************************************************)
(* Initial state and specifications                                        *)
(***************************************************************************)
\* No payload is being parsed; no Cart has been built.
NoPayload == [none |-> TRUE]
NoCart == [none |-> TRUE]

\* The tool invocations the server may be serving at the same time.
MaxInvocations == 2
Invocations == 1..MaxInvocations

\* No workflow call is running.
NoArgs == [search_query |-> "", product_index |-> 0, quantity |-> 0, address_index |-> 0]

\* workflow_result as complete_order_workflow initialises it.
NoWorkflowResult == [success |-> FALSE, steps |-> <<>>, order |-> "None", error |-> "None"]

\* No cart drawer is being looked at.
NoView == [none |-> TRUE]

\* No session file exists.
NoFile == [none |-> TRUE]

\* No call made yet.
NoCall == [op |-> "none", quantity |-> 0, text |-> <<>>]

\* remove_from_cart was not called yet.
NoRemoval == [called |-> FALSE, quantity |-> 0, clicks |-> 0]

\* for i in range(quantity): click '-'; break when ADD is visible again.
minus_clicks_without_break(qty, in_cart) ==
    IF qty <= 0 THEN 0 ELSE qty
minus_clicks(qty, in_cart) ==
    IF qty <= 0 THEN 0 ELSE IF qty < in_cart THEN qty ELSE in_cart

\* CartService.remove_from_cart(product_id, quantity): the card by id, after
\* a re-search under the recorded query when it is not on the page; the '-'
\* control is visible when the card shows a counter.
Call_cart_remove_from_cart ==
    /\ crtPc = "idle"
    /\ \E pid \in Products, qty \in {-1, 0, 2} :
         LET entry == known_products[pid]
             research == /\ pid \notin Range(rendered)
                         /\ entry # NoEntry
                         /\ entry.source_query # "None"
         IN /\ IF research THEN search_product(entry.source_query)
               ELSE UNCHANGED <<rendered, current_query>>
            /\ LET n == IF pid \in Range(rendered') /\ cartQty[pid] > 0
                        THEN minus_clicks(qty, cartQty[pid]) ELSE 0
               IN /\ cartQty' = [cartQty EXCEPT ![pid] = @ - n]
                  /\ removal' = [called |-> TRUE, quantity |-> qty, clicks |-> n]
    /\ UNCHANGED <<cap, known_products, crtVars, nonPageRmVars>>

\* The parser has not run on the data yet.
NotParsed == [pending |-> TRUE]

\* No order response has arrived.
NoOrderResponse == [none |-> TRUE]

\* BlinkitAPIClient.__init__: the four token types, all None; no cookies.
TokenTypes == {"auth_key", "session_uuid", "access_token", "feature_flag_key"}
CookieNames == {"gr_1_deviceId", "__cf_bm"}
NoTokens == [t \in TokenTypes |-> "None"]
NoCookies == [n \in CookieNames |-> "absent"]

\* No API session file exists.
NoApiSession == [exists |-> FALSE]

\* No fresh client has loaded anything.
NoFresh == [ret |-> "none", auth_tokens |-> NoTokens, session_cookies |-> NoCookies]

\* search_and_add_to_cart has not returned.
NoSelResult == [success |-> "none", error |-> "none"]

\* The page right after the browser opened it.
HomePage == [notice |-> FALSE, items |-> 0, proceed |-> FALSE, cart_button |-> TRUE,
             screen |-> "home", selected |-> -1]

\* No call has been made on the page as it is.
NoClosedCall == [op |-> "none", index |-> 0, clicks |-> <<>>, ret |-> "none", before |-> HomePage]

\* The manager the services share starts with an empty id -> query map and
\* no current query.
ManagerInit ==
    /\ known_products = [p \in Products |-> NoEntry]
    /\ current_query = "None"

Init ==
    /\ op = "idle"
    /\ pc = "idle"
    /\ idx = 0
    /\ last_error = "None"
    /\ requested = <<>>
    /\ outcomes = <<>>
    /\ attempt = 0
    /\ last_exception = "None"
    /\ reqLog = <<>>
    /\ reqResult = NoReq
    /\ result = NoResult
    /\ cart_cache = "None"
    /\ chkOp = "idle"
    /\ chkPc = "idle"
    /\ chkIdx = 0
    /\ probes = <<>>
    /\ chkResult = "none"
    /\ rendered = <<>>
    /\ cartQty = [p \in Products |-> 0]
    /\ cap = 0
    /\ ManagerInit
    /\ crtPc = "closed"
    /\ product_id = "none"
    /\ quantity = 0
    /\ card = "none"
    /\ lookup = "none"
    /\ cardHow = "none"
    /\ addVisible = FALSE
    /\ plusFound = FALSE
    /\ items_to_add = 0
    /\ loop_i = 0
    /\ clicks = <<>>
    /\ searches = <<>>
    /\ limitSeenAt = 0
    /\ limitHit = FALSE
    /\ out = NoOut
    /\ cart_data = NoPayload
    /\ parsed = NoCart
    /\ drawer_view = NoView
    /\ items_text = "none"
    /\ flowPc = "idle"
    /\ visible_markers = {}
    /\ checkout_result = "none"
    /\ flow_steps = <<>>
    /\ wfArgs = NoArgs
    /\ wfPc = "idle"
    /\ workflow_result = NoWorkflowResult
    /\ wfCalls = <<>>
    /\ wfFailedAt = "none"
    /\ role_cards = 0
    /\ text_cards = 0
    /\ selected = -1
    /\ addrCalls = <<>>
    /\ auth_page = 0
    /\ order_page = 0
    /\ pages_created = 0
    /\ closed_pages = {}
    /\ toolPc = [t \in Invocations |-> "idle"]
    /\ guard_ok = [t \in Invocations |-> FALSE]
    /\ session_started = FALSE
    /\ http_session = "None"
    /\ sent_on = <<>>
    /\ session_file = NoFile
    /\ client_token = "None"
    /\ client_cookies = {}
    /\ current_login = "None"
    /\ today = 0
    /\ loaded = "none"
    /\ val_call = NoCall
    /\ val_outcome = "none"
    /\ requests_issued = 0
    /\ cache_held = "None"
    /\ jar_cookies = {}
    /\ removal = NoRemoval
    /\ lgPc = "idle"
    /\ lgIdx = 1
    /\ server_answers = <<>>
    /\ lgRequested = <<>>
    /\ lgLastError = "None"
    /\ login_result = "none"
    /\ id_parser = "none"
    /\ id_fields = <<>>
    /\ id_record = NotParsed
    /\ order_response = NoOrderResponse
    /\ order_parsed = NotParsed
    /\ money_source = "none"
    /\ money_fields = <<>>
    /\ money_result = NotParsed
    /\ cancel_signalled = FALSE
    /\ apoPc = "idle"
    /\ apoIdx = 1
    /\ apo_posted = <<>>
    /\ apo_response = NoOrderResponse
    /\ apo_result = "none"
    /\ surfaced = {}
    /\ auth_tokens = NoTokens
    /\ session_cookies = NoCookies
    /\ api_session = NoApiSession
    /\ save_ret = "none"
    /\ fresh = NoFresh
    /\ selPc = "idle"
    /\ selArgs = [product_index |-> 0, quantity |-> 1]
    /\ selFound = 0
    /\ selCalls = <<>>
    /\ selResult = NoSelResult
    /\ shop_page = HomePage
    /\ closedCall = NoClosedCall

CartNext ==
    \/ StartBrowser
    \/ Search
    \/ GetSearchResults
    \/ Call_cart_add_to_cart
    \/ LookupOnPage
    \/ LookupReSearch
    \/ LookupNoQuery
    \/ LookupFirstCardFallback
    \/ LookupNothing
    \/ AfterReSearch
    \/ AddClick
    \/ AddNotVisible
    \/ PlusFind
    \/ PlusClick
    \/ FinalVerification
    \/ CartReturn
    \/ Call_cart_remove_from_cart

SpecHttp == Init /\ [][HttpNext]_vars
SpecCheckout == Init /\ [][ChkNext]_vars
SpecCart == Init /\ [][CartNext]_vars

(***************************************************************************)
(* Properties of page mode                                                 *)
(***************************************************************************)
\* C6: a fault raised while probing or clicking one candidate selector is a
\* non-success of that candidate only: the operation reports failure only
\* after the remaining selectors have been tried in order.
C6_FaultSkipsOnlyThatCandidate ==
    (chkPc = "done" /\ chkResult = "False") =>
        Len(probes) = Len(Selectors(chkOp))

\* the '+' clicks among the clicks of this call
PlusClicks == {k \in 1..Len(clicks) : clicks[k].btn = "+"}
AddClicks == {k \in 1..Len(clicks) : clicks[k].btn = "ADD"}

\* C7: add_to_cart never acts on a product other than the requested one
\* merely because it is first in the rendered list: when the id is neither
\* on the page nor in known_products the call ends without any click.
C7_NoFirstInListSubstitution ==
    /\ lookup = "unknown" => clicks = <<>>
    /\ cardHow = "first" => \A k \in 1..Len(clicks) : clicks[k].on = product_id

\* C8: for an id absent from the view with a known entry of source query Q,
\* exactly one re-search for Q precedes the second lookup, and if the id
\* is still absent the call ends as not locatable with no click on any
\* substitute product.
C8_ReacquireOrNotLocatable ==
    (lookup = "known" /\ crtPc # "lookup") =>
        /\ known_products[product_id].source_query # "None" =>
               searches = <<known_products[product_id].source_query>>
        /\ \A k \in 1..Len(clicks) : clicks[k].on = product_id
        /\ (crtPc = "done" /\ card # product_id) => out.notFoundPrinted /\ clicks = <<>>

C10_ShortfallReported ==
    (crtPc = "done" /\ quantity >= 1 /\ cap < quantity /\ limitHit /\ ~out.errorPrinted) =>
        /\ out.reportedQty = cartQty[card]
        /\ out.limitReported
        /\ out.returned # "None"

(***************************************************************************)
(* BlinkitCart._parse_cart_response: from a cart payload to a Cart.        *)
(* Amounts are whole rupees.  A field of the payload is Absent, a number,  *)
(* or a text float() refuses.  An item is a record {quantity, price} or    *)
(* "malformed" (its quantity or price does not convert).                   *)
(***************************************************************************)
MaxItems == 2

Absent == [kind |-> "absent"]
Text(chars) == [kind |-> "text", chars |-> chars]
BadText == Text(<<"n", "/", "a">>)
Amount(n) == [kind |-> "number", n |-> n]

MalformedItem == [malformed |-> TRUE]
NoItem == [none |-> TRUE]

ItemData == [quantity : {1, 2}, price : {0, 5, 10}] \cup {MalformedItem}

ItemLists == UNION {[1..n -> ItemData] : n \in 0..MaxItems}

CartPayloads ==
    [items : ItemLists,
     subtotal : {Absent, BadText, Amount(25)},
     delivery_fee : {Absent, Amount(3)},
     taxes : {Absent, Amount(2)},
     total : {Absent, Amount(0), Amount(30)}]

\* data.get(field): the payloads carry the first name of each of the four
\* lists of field names; the alternative names are absent.
Get(data, field) == IF field \in DOMAIN data THEN data[field] ELSE Absent

\* _parse_cart_item: None when a conversion raises; total_price computed
\* from price * quantity when it is not given.
_parse_cart_item(item_data) ==
    IF item_data = MalformedItem THEN NoItem
    ELSE [quantity |-> item_data.quantity,
          price |-> item_data.price,
          total_price |-> item_data.price * item_data.quantity]

Digits == {"0", "1", "2", "3", "4", "5", "6", "7", "8", "9"}
DigitSeq == <<"0", "1", "2", "3", "4", "5", "6", "7", "8", "9">>

\* The number a run of digits denotes.
RECURSIVE NumeralValue(_)
NumeralValue(run) ==
    IF run = <<>> THEN 0
    ELSE NumeralValue(SubSeq(run, 1, Len(run) - 1)) * 10
         + (CHOOSE n \in 0..9 : DigitSeq[n + 1] = run[Len(run)])

\* float(value): a number converts to itself, a text converts when it is a
\* numeral (whole numerals here), anything else raises ValueError/TypeError.
float(value) ==
    IF value.kind = "number" THEN [ok |-> TRUE, n |-> value.n]
    ELSE IF value.kind = "text" /\ value.chars # <<>>
            /\ \A i \in 1..Len(value.chars) : value.chars[i] \in Digits
         THEN [ok |-> TRUE, n |-> NumeralValue(value.chars)]
    ELSE [ok |-> FALSE, n |-> 0]

\* _extract_amount: the first listed field that is present and converts.
RECURSIVE _extract_amount(_, _)
_extract_amount(data, field_names) ==
    IF field_names = <<>> THEN 0
    ELSE LET value == Get(data, Head(field_names)) IN
         IF value.kind # "absent" /\ float(value).ok THEN float(value).n
         ELSE _extract_amount(data, Tail(field_names))

\* The loop that appends every item _parse_cart_item accepted.
RECURSIVE ParsedItems(_)
ParsedItems(item_list) ==
    IF item_list = <<>> THEN <<>>
    ELSE LET cart_item == _parse_cart_item(Head(item_list)) IN
         IF cart_item = NoItem THEN ParsedItems(Tail(item_list))
         ELSE <<cart_item>> \o ParsedItems(Tail(item_list))

\* "If total_amount is not available, calculate it".
computed_total(total_amount, subtotal, delivery_fee, taxes) ==
    IF total_amount = 0 /\ subtotal > 0
    THEN subtotal + delivery_fee + taxes
    ELSE total_amount

\* The Cart built from the payload.
ParseCartData(data) ==
    LET items == ParsedItems(data.items)
        subtotal == _extract_amount(data, <<"subtotal", "sub_total", "items_total">>)
        delivery_fee == _extract_amount(data, <<"delivery_fee", "shipping_fee", "delivery_charge">>)
        taxes == _extract_amount(data, <<"taxes", "tax", "gst", "vat">>)
        total_amount == _extract_amount(data, <<"total", "total_amount", "grand_total">>)
    IN [items |-> items,
        total_items |-> Len(items),
        subtotal |-> subtotal,
        delivery_fee |-> delivery_fee,
        taxes |-> taxes,
        total_amount |-> computed_total(total_amount, subtotal, delivery_fee, taxes)]

\* A valid cart response has arrived in get_cart.
ReceiveCartResponse ==
    /\ \E d \in CartPayloads : cart_data' = d
    /\ parsed' = NoCart
    /\ UNCHANGED nonParseVars

\* cart = self._parse_cart_response(response)
ParseCartResponse ==
    /\ cart_data # NoPayload
    /\ parsed = NoCart
    /\ parsed' = ParseCartData(cart_data)
    /\ UNCHANGED cart_data
    /\ UNCHANGED nonParseVars

\* The Cart get_cart builds after its loop, when no endpoint gave a valid
\* cart response.
empty_cart ==
    [items |-> <<>>, total_items |-> 0, subtotal |-> 0, delivery_fee |-> 0, taxes |-> 0,
     total_amount |-> 0]

\* get_cart: every endpoint failed; the empty Cart is cached and returned.
GetCartAllEndpointsFail ==
    /\ cart_data' = NoPayload
    /\ parsed' = empty_cart
    /\ UNCHANGED nonParseVars

ParseNext ==
    \/ ReceiveCartResponse
    \/ ParseCartResponse
    \/ GetCartAllEndpointsFail

SpecParse == Init /\ [][ParseNext]_vars

RECURSIVE SumOfLines(_)
SumOfLines(items) ==
    IF items = <<>> THEN 0
    ELSE Head(items).quantity * Head(items).price + SumOfLines(Tail(items))

\* C11: for every cart response with at least one item and no grand total
\* supplied, the parsed Cart has subtotal = sum of quantity x unit price over
\* its items and total_amount = subtotal + delivery_fee + taxes, and
\* total_amount is not zero while priced items exist.
C11_CartTotalInvariant ==
    (parsed # NoCart /\ Len(parsed.items) >= 1 /\ cart_data.total = Absent)
        => /\ parsed.subtotal = SumOfLines(parsed.items)
           /\ parsed.total_amount = parsed.subtotal + parsed.delivery_fee + parsed.taxes
           /\ (SumOfLines(parsed.items) > 0 => parsed.total_amount # 0)

\* C12: when the most recent completed call is a cart mutation that was sent
\* to the source, BlinkitCart holds no cached snapshot.
C12_NoSnapshotAcrossMutation ==
    (pc = "done" /\ op \in MutatingOps /\ requested # <<>>) => cart_cache = "None"

\* C14: CartService.add_to_cart does not report the add as successful when
\* the store-unavailable notice is showing after its add/increment actions.
C14_UnavailableNotSuccess ==
    (crtPc = "done" /\ out.unavailableWarned) => ~out.successPrinted

(***************************************************************************)
(* CartService.get_cart_items: reading the cart drawer.                    *)
(* The page is observed twice: page.is_visible(...) on the phrases, and    *)
(* later drawer.inner_text().  `visible` is the set of phrases whose       *)
(* is_visible check answers true, `text` the set of phrases contained in   *)
(* the drawer text when it is scraped.                                     *)
(***************************************************************************)
UnavailabilityPhrases ==
    {"currently unavailable", "can't take your order", "high demand", "store is closed"}

Views ==
    [cart_btn : BOOLEAN,
     visible : SUBSET UnavailabilityPhrases,
     cart_active : BOOLEAN,
     drawer : BOOLEAN,
     text : SUBSET UnavailabilityPhrases,
     raises : BOOLEAN]

\* "1. Critical Availability Check": the three is_visible calls.
critical_availability_check(v) ==
    \/ "can't take your order" \in v.visible
    \/ "currently unavailable" \in v.visible
    \/ "high demand" \in v.visible

\* BaseService._is_store_closed
_is_store_closed(v) == "store is closed" \in v.visible

\* The test on the scraped drawer text.
unavailable_in_content(v) ==
    \/ "currently unavailable" \in v.text
    \/ "can't take your order" \in v.text

\* What get_cart_items returns on the page v.
get_cart_items(v) ==
    IF ~v.cart_btn THEN "Cart button not found."
    ELSE IF v.raises THEN "Cart drawer checking timed out or error"
    ELSE IF critical_availability_check(v) THEN "CRITICAL: Store is unavailable."
    ELSE IF _is_store_closed(v) THEN "CRITICAL: Store is closed."
    ELSE IF v.drawer
         THEN IF unavailable_in_content(v)
              THEN "CRITICAL: Store is unavailable (Text detected in cart)."
              ELSE "content"
    ELSE IF v.cart_active THEN "Cart is open."
    ELSE "WARNING: Cart opened but seems empty or store is unavailable"

\* The source renders the page the next cart read will see.
PageShowsCart ==
    /\ drawer_view = NoView
    /\ \E v \in Views : drawer_view' = v
    /\ UNCHANGED items_text
    /\ UNCHANGED nonViewVars

\* CartService.get_cart_items()
Call_get_cart_items ==
    /\ drawer_view # NoView
    /\ items_text = "none"
    /\ items_text' = get_cart_items(drawer_view)
    /\ UNCHANGED drawer_view
    /\ UNCHANGED nonViewVars

\* The caller takes the returned text.
ViewReturn ==
    /\ items_text # "none"
    /\ items_text' = "none"
    /\ drawer_view' = NoView
    /\ UNCHANGED nonViewVars

ViewNext ==
    \/ PageShowsCart
    \/ Call_get_cart_items
    \/ ViewReturn

SpecView == Init /\ [][ViewNext]_vars

\* C13: get_cart_items never returns the scraped cart content as a normal
\* result when an unavailability phrase is visible on the page or contained
\* in the drawer text, success markers or not.
C13_UnavailablePrecedesSuccess ==
    (items_text # "none" /\ (drawer_view.visible # {} \/ (drawer_view.drawer /\ drawer_view.text # {})))
        => items_text # "content"

(***************************************************************************)
(* CheckoutService.place_order and the server tool complete_order_flow.    *)
(***************************************************************************)
MaxResults == 2

address_indicators ==
    {"text='Select Address'", "text='Choose Address'", "text='Delivery Address'",
     "div:has-text('Add Address')", "div:has-text('Home')", "div:has-text('Work')"}

payment_indicators ==
    {"text='Payment Options'", "text='Cash on Delivery'", "text='UPI'",
     "text='Credit Card'", "#payment_widget"}

\* for indicator in ...: if page.is_visible(indicator): return True
_is_address_selection_visible(vis) == vis \cap address_indicators # {}
_is_payment_screen_visible(vis) == vis \cap payment_indicators # {}

\* The if / elif / else after the Proceed click.
next_state_marker(vis) ==
    IF _is_address_selection_visible(vis) THEN "ADDRESS_SELECTION_REQUIRED"
    ELSE IF _is_payment_screen_visible(vis) THEN "PAYMENT_SCREEN_READY"
    ELSE "CHECKOUT_INITIATED"

FlowStep(step, ok) == [step |-> step, ok |-> ok]

\* complete_order_flow(query, item_index, address_index)
Call_complete_order_flow ==
    /\ flowPc = "idle"
    /\ flowPc' = "search"
    /\ visible_markers' = {}
    /\ checkout_result' = "none"
    /\ flow_steps' = <<>>
    /\ UNCHANGED nonFlowVars

\* Step 1: search, pick results[item_index], add it to the cart.  The flow
\* ends when there is no result, the index is out of range or a call raises.
FlowSearchAndAdd ==
    /\ flowPc = "search"
    /\ \E n \in 0..MaxResults, item_index \in 0..MaxResults - 1, raises \in BOOLEAN :
         IF raises
         THEN /\ flow_steps' = Append(flow_steps, FlowStep("search_product", FALSE))
              /\ flowPc' = "done"
         ELSE IF n = 0 \/ item_index >= n
         THEN /\ flow_steps' = Append(flow_steps, FlowStep("search_product", TRUE))
              /\ flowPc' = "done"
         ELSE /\ flow_steps' = flow_steps \o <<FlowStep("search_product", TRUE),
                                                FlowStep("add_to_cart", TRUE)>>
              /\ flowPc' = "checkout"
    /\ UNCHANGED <<visible_markers, checkout_result>>
    /\ UNCHANGED nonFlowVars

\* place_order up to the Proceed click: the store-closed check, opening the
\* cart drawer when Proceed is not visible, the second is_visible, the click.
PlaceOrderProceed ==
    /\ flowPc = "checkout"
    /\ \E store_closed \in BOOLEAN, proceed_visible \in BOOLEAN, raises \in BOOLEAN :
         /\ checkout_result' =
              IF store_closed THEN "CRITICAL: Store is closed."
              ELSE IF raises THEN "ERROR"
              ELSE IF ~proceed_visible THEN "PROCEED_BUTTON_NOT_FOUND"
              ELSE "none"
         /\ flowPc' = IF ~store_closed /\ ~raises /\ proceed_visible
                      THEN "markers" ELSE "branch"
         /\ flow_steps' = Append(flow_steps,
                 FlowStep("place_order", ~store_closed /\ ~raises /\ proceed_visible))
    /\ UNCHANGED visible_markers
    /\ UNCHANGED nonFlowVars

\* place_order after the click: which screen the page shows.
PlaceOrderMarkers ==
    /\ flowPc = "markers"
    /\ \E vis \in SUBSET (address_indicators \cup payment_indicators) :
         /\ visible_markers' = vis
         /\ checkout_result' = next_state_marker(vis)
    /\ flowPc' = "branch"
    /\ UNCHANGED flow_steps
    /\ UNCHANGED nonFlowVars

\* "Step 3: Handle address selection if needed": only the address-required
\* marker is tested.  Every other checkout_result goes on to step 4.
after_checkout(r) == IF r = "ADDRESS_SELECTION_REQUIRED" THEN "address" ELSE "cod"

FlowBranch ==
    /\ flowPc = "branch"
    /\ flowPc' = after_checkout(checkout_result)
    /\ UNCHANGED <<visible_markers, checkout_result, flow_steps>>
    /\ UNCHANGED nonFlowVars

\* select_address(address_index): on failure the flow ends.
FlowSelectAddress ==
    /\ flowPc = "address"
    /\ \E success \in BOOLEAN :
         /\ flow_steps' = Append(flow_steps, FlowStep("select_address", success))
         /\ flowPc' = IF success THEN "proceed" ELSE "done"
    /\ UNCHANGED <<visible_markers, checkout_result>>
    /\ UNCHANGED nonFlowVars

\* `await ctx.order.proceed_to_pay()`: the returned value is dropped.
FlowProceedToPay ==
    /\ flowPc = "proceed"
    /\ \E success \in BOOLEAN :
         flow_steps' = Append(flow_steps, FlowStep("proceed_to_pay", success))
    /\ flowPc' = "cod"
    /\ UNCHANGED <<visible_markers, checkout_result>>
    /\ UNCHANGED nonFlowVars

\* Step 4: select_cod()
FlowSelectCod ==
    /\ flowPc = "cod"
    /\ \E cod_success \in BOOLEAN :
         /\ flow_steps' = Append(flow_steps, FlowStep("select_cod", cod_success))
         /\ flowPc' = IF cod_success THEN "place" ELSE "done"
    /\ UNCHANGED <<visible_markers, checkout_result>>
    /\ UNCHANGED nonFlowVars

\* Step 5: place_cod_order()
FlowPlaceCodOrder ==
    /\ flowPc = "place"
    /\ \E order_success \in BOOLEAN :
         flow_steps' = Append(flow_steps, FlowStep("place_cod_order", order_success))
    /\ flowPc' = "done"
    /\ UNCHANGED <<visible_markers, checkout_result>>
    /\ UNCHANGED nonFlowVars

\* return f.getvalue()
FlowReturn ==
    /\ flowPc = "done"
    /\ flowPc' = "idle"
    /\ visible_markers' = {}
    /\ checkout_result' = "none"
    /\ flow_steps' = <<>>
    /\ UNCHANGED nonFlowVars

FlowNext ==
    \/ Call_complete_order_flow
    \/ FlowSearchAndAdd
    \/ PlaceOrderProceed
    \/ PlaceOrderMarkers
    \/ FlowBranch
    \/ FlowSelectAddress
    \/ FlowProceedToPay
    \/ FlowSelectCod
    \/ FlowPlaceCodOrder
    \/ FlowReturn

SpecFlow == Init /\ [][FlowNext]_vars

Attempted(step) == \E i \in 1..Len(flow_steps) : flow_steps[i].step = step
Succeeded(step) == \E i \in 1..Len(flow_steps) : flow_steps[i].step = step /\ flow_steps[i].ok

\* C15: after the Proceed click place_order returns address-required when an
\* address-selection marker is visible, payment-ready when a payment marker
\* is visible, and the unknown marker only when neither is; no page state
\* qualifies for both outcomes.
C15_OneNextStateMarker ==
    (flowPc = "branch" /\ Succeeded("place_order")) =>
        /\ _is_address_selection_visible(visible_markers)
              => checkout_result = "ADDRESS_SELECTION_REQUIRED"
        /\ _is_payment_screen_visible(visible_markers)
              => checkout_result = "PAYMENT_SCREEN_READY"
        /\ checkout_result = "CHECKOUT_INITIATED"
              <=> (~_is_address_selection_visible(visible_markers)
                   /\ ~_is_payment_screen_visible(visible_markers))

\* C16: complete_order_flow attempts payment selection and final placement
\* only after checkout reached payment-ready, directly or through
\* address-required, a successful address selection and a successful second
\* proceed; for every other checkout outcome neither is attempted.
PaymentReadyReached ==
    \/ checkout_result = "PAYMENT_SCREEN_READY"
    \/ /\ checkout_result = "ADDRESS_SELECTION_REQUIRED"
       /\ Succeeded("select_address")
       /\ Succeeded("proceed_to_pay")

C16_PaymentOnlyAfterPaymentReady ==
    (Attempted("select_cod") \/ Attempted("place_cod_order")) => PaymentReadyReached

(***************************************************************************)
(* BlinkitAPIService.complete_order_workflow: search, add, verify the      *)
(* cart, addresses, place the order.  One try block around all five steps; *)
(* the except clause stores str(e) and returns the result built so far.    *)
(***************************************************************************)
MaxAddresses == 2

StepOrder == <<"search", "add_to_cart", "cart_verification", "addresses", "order_placement">>

\* A step's entry: its success flag and the count it reports
\* (products_found, quantity, total_items, addresses_found).
StepRecord(name, success, n) == [name |-> name, success |-> success, n |-> n]

\* workflow_result['steps'][name] = {...}
record_step(r, name, success, n) ==
    [r EXCEPT !.steps = Append(r.steps, StepRecord(name, success, n))]

\* except Exception as e: workflow_result['error'] = str(e); return workflow_result
on_exception_rollback(r, message) == [r EXCEPT !.error = message, !.steps = <<>>]
on_exception(r, message) == [r EXCEPT !.error = message]

\* A step ends the workflow with the exception `message`.
WfRaise(r, step, message) ==
    /\ workflow_result' = on_exception(r, message)
    /\ wfFailedAt' = step
    /\ wfPc' = "done"

\* A step is over without an exception.
WfGoOn(r, next) ==
    /\ workflow_result' = r
    /\ wfPc' = next
    /\ UNCHANGED wfFailedAt

Call_complete_order_workflow ==
    /\ wfPc = "idle"
    /\ wfPc' = "search"
    /\ \E query \in {"", "milk"}, product_index \in 0..MaxResults - 1,
          qty \in 0..MaxQuantity - 1, address_index \in 0..MaxAddresses - 1 :
         wfArgs' = [search_query |-> query, product_index |-> product_index,
                    quantity |-> qty, address_index |-> address_index]
    /\ workflow_result' = NoWorkflowResult
    /\ wfCalls' = <<>>
    /\ wfFailedAt' = "none"
    /\ UNCHANGED nonWfVars

\* Step 1: search_products; the 'search' record is written before the two
\* index checks.
WfSearch ==
    /\ wfPc = "search"
    /\ wfCalls' = Append(wfCalls, "search_products")
    /\ \E n \in 0..MaxResults :
         IF wfArgs.search_query = ""
         THEN WfRaise(workflow_result, "search", "Search query cannot be empty")
         ELSE LET r == record_step(workflow_result, "search", TRUE, n) IN
              IF n = 0 THEN WfRaise(r, "search", "No products found")
              ELSE IF wfArgs.product_index >= n THEN WfRaise(r, "search", "Product index out of range")
              ELSE WfGoOn(r, "add")
    /\ UNCHANGED wfArgs
    /\ UNCHANGED nonWfVars

\* Step 2: add_to_cart returns True or raises (ValueError, CartError).
WfAddToCart ==
    /\ wfPc = "add"
    /\ wfCalls' = Append(wfCalls, "add_to_cart")
    /\ \E added \in BOOLEAN :
         IF wfArgs.quantity <= 0 THEN WfRaise(workflow_result, "add_to_cart", "Quantity must be positive")
         ELSE IF ~added THEN WfRaise(workflow_result, "add_to_cart", "Failed to add product to cart")
         ELSE WfGoOn(record_step(workflow_result, "add_to_cart", TRUE, wfArgs.quantity), "verify")
    /\ UNCHANGED wfArgs
    /\ UNCHANGED nonWfVars

\* Step 3: get_cart never raises; the record's success is len(cart.items) > 0
\* and the workflow goes on either way.
WfCartVerification ==
    /\ wfPc = "verify"
    /\ wfCalls' = Append(wfCalls, "get_cart")
    /\ \E items \in 0..MaxItems :
         WfGoOn(record_step(workflow_result, "cart_verification", items > 0, items), "addresses")
    /\ UNCHANGED wfArgs
    /\ UNCHANGED nonWfVars

\* Step 4: get_delivery_addresses; the record is written before the checks.
WfAddresses ==
    /\ wfPc = "addresses"
    /\ wfCalls' = Append(wfCalls, "get_delivery_addresses")
    /\ \E n \in 0..MaxAddresses :
         LET r == record_step(workflow_result, "addresses", n > 0, n) IN
         IF n = 0 THEN WfRaise(r, "addresses", "No delivery addresses found")
         ELSE IF wfArgs.address_index >= n THEN WfRaise(r, "addresses", "Address index out of range")
         ELSE WfGoOn(r, "place")
    /\ UNCHANGED wfArgs
    /\ UNCHANGED nonWfVars

\* Step 5: place_order returns an Order or raises OrderError.
WfPlaceOrder ==
    /\ wfPc = "place"
    /\ wfCalls' = Append(wfCalls, "place_order")
    /\ \E placed \in BOOLEAN :
         IF ~placed THEN WfRaise(workflow_result, "order_placement", "Failed to place order")
         ELSE WfGoOn([record_step(workflow_result, "order_placement", TRUE, 1)
                         EXCEPT !.success = TRUE, !.order = "Order"], "done")
    /\ UNCHANGED wfArgs
    /\ UNCHANGED nonWfVars

\* The caller takes workflow_result.
WfReturn ==
    /\ wfPc = "done"
    /\ wfPc' = "idle"
    /\ wfArgs' = NoArgs
    /\ workflow_result' = NoWorkflowResult
    /\ wfCalls' = <<>>
    /\ wfFailedAt' = "none"
    /\ UNCHANGED nonWfVars

WfNext ==
    \/ Call_complete_order_workflow
    \/ WfSearch
    \/ WfAddToCart
    \/ WfCartVerification
    \/ WfAddresses
    \/ WfPlaceOrder
    \/ WfReturn

SpecWorkflow == Init /\ [][WfNext]_vars

Recorded(name) ==
    \E i \in 1..Len(workflow_result.steps) : workflow_result.steps[i].name = name

StepIndex(name) == CHOOSE i \in 1..Len(StepOrder) : StepOrder[i] = name

MaxCalls == 3

\* The address screen opens (place_order returned ADDRESS_SELECTION_REQUIRED).
AddressScreenShown ==
    /\ \E r \in 0..MaxAddresses, t \in 0..MaxAddresses :
         /\ r <= t
         /\ role_cards' = r
         /\ text_cards' = t
    /\ selected' = -1
    /\ addrCalls' = <<>>
    /\ UNCHANGED nonAddrVars

\* address_cards: the role selector, or the alternative when it matches nothing.
address_cards_count == IF role_cards = 0 THEN text_cards ELSE role_cards

\* `if await address_cards.count() > index`
index_found(count, index) == count > index

\* select_address(index): True after the click, False when the index is not
\* among the cards or the click raises.
Call_select_address ==
    /\ Len(addrCalls) < MaxCalls
    /\ \E index \in 0..MaxAddresses - 1, click_raises \in BOOLEAN, closes \in BOOLEAN :
         IF index_found(address_cards_count, index)
         THEN IF click_raises
              THEN /\ addrCalls' = Append(addrCalls, [index |-> index, result |-> FALSE])
                   /\ UNCHANGED <<role_cards, text_cards, selected>>
              ELSE /\ addrCalls' = Append(addrCalls, [index |-> index, result |-> TRUE])
                   /\ selected' = index
                   /\ role_cards' = IF closes THEN 0 ELSE role_cards
                   /\ text_cards' = IF closes THEN 0 ELSE text_cards
         ELSE /\ addrCalls' = Append(addrCalls, [index |-> index, result |-> FALSE])
              /\ UNCHANGED <<role_cards, text_cards, selected>>
    /\ UNCHANGED nonAddrVars

AddrNext ==
    \/ AddressScreenShown
    \/ Call_select_address

SpecAddress == Init /\ [][AddrNext]_vars

\* C18: select_address(0) invoked twice in a row, address 0 being selected
\* after the first call, returns success both times.
C18_SelectAddressIdempotent ==
    \A i \in 1..Len(addrCalls) - 1 :
        (/\ addrCalls[i].index = 0 /\ addrCalls[i].result
         /\ addrCalls[i + 1].index = 0
         /\ selected = 0)
            => addrCalls[i + 1].result

(***************************************************************************)
(* The browser server: BlinkitContext.ensure_started and the tools.        *)
(* Each tool is a coroutine `await ctx.ensure_started()` followed by its   *)
(* page actions; the server runs the coroutines of overlapping requests on *)
(* one event loop, switching between them at an await.  The page may be    *)
(* closed from outside at any time.                                        *)
(***************************************************************************)
MaxPages == 3

\* ensure_started: `if not self.auth.page` / `self.auth.page.is_closed()`
restart == auth_page = 0 \/ auth_page \in closed_pages

\* The session as the claim wants it when ensure_started returns: a page
\* that is not closed and an order object built on that page.
LiveAndConsistent(page, order, closed) ==
    /\ page # 0
    /\ page \notin closed
    /\ order # 0
    /\ order = page

\* A tool is invoked: ensure_started up to its first await.  No restart:
\* ctx.order is built if it is missing and the guard returns.
ToolInvoked(t) ==
    /\ toolPc[t] = "idle"
    /\ IF restart
       THEN /\ pages_created < MaxPages
            /\ toolPc' = [toolPc EXCEPT ![t] = "launching"]
            /\ UNCHANGED <<order_page, guard_ok>>
       ELSE /\ order_page' = IF order_page = 0 THEN auth_page ELSE order_page
            /\ toolPc' = [toolPc EXCEPT ![t] = "acting"]
            /\ guard_ok' = [guard_ok EXCEPT
                              ![t] = LiveAndConsistent(auth_page, order_page', closed_pages)]
    /\ UNCHANGED <<auth_page, pages_created, closed_pages>>
    /\ UNCHANGED nonSrvVars

\* start_browser raises before it has a page (the launch fails): the
\* exception leaves ensure_started and the tool.
LaunchFails(t) ==
    /\ toolPc[t] = "launching"
    /\ toolPc' = [toolPc EXCEPT ![t] = "idle"]
    /\ UNCHANGED <<auth_page, order_page, pages_created, closed_pages, guard_ok>>
    /\ UNCHANGED nonSrvVars

\* start_browser: self.page = await self.context.new_page()
PageAssigned(t) ==
    /\ toolPc[t] = "launching"
    /\ pages_created' = pages_created + 1
    /\ auth_page' = pages_created + 1
    /\ toolPc' = [toolPc EXCEPT ![t] = "launched"]
    /\ UNCHANGED <<order_page, closed_pages, guard_ok>>
    /\ UNCHANGED nonSrvVars

\* The rest of start_browser (goto, popup, homepage check: every failure is
\* swallowed) returns; self.order = BlinkitOrder(self.auth.page); the guard
\* returns.
StartBrowserReturns(t) ==
    /\ toolPc[t] = "launched"
    /\ order_page' = auth_page
    /\ toolPc' = [toolPc EXCEPT ![t] = "acting"]
    /\ guard_ok' = [guard_ok EXCEPT
                      ![t] = LiveAndConsistent(auth_page, auth_page, closed_pages)]
    /\ UNCHANGED <<auth_page, pages_created, closed_pages>>
    /\ UNCHANGED nonSrvVars

\* The tool's page actions are over; it returns its text.
ToolFinished(t) ==
    /\ toolPc[t] = "acting"
    /\ toolPc' = [toolPc EXCEPT ![t] = "idle"]
    /\ guard_ok' = [guard_ok EXCEPT ![t] = FALSE]
    /\ UNCHANGED <<auth_page, order_page, pages_created, closed_pages>>
    /\ UNCHANGED nonSrvVars

\* A page is closed from outside (the window is closed, the browser dies).
PageCloses ==
    /\ \E p \in 1..pages_created :
         /\ p \notin closed_pages
         /\ closed_pages' = closed_pages \cup {p}
    /\ UNCHANGED <<auth_page, order_page, pages_created, toolPc, guard_ok>>
    /\ UNCHANGED nonSrvVars

SrvNext ==
    \/ \E t \in Invocations : ToolInvoked(t)
    \/ \E t \in Invocations : LaunchFails(t)
    \/ \E t \in Invocations : PageAssigned(t)
    \/ \E t \in Invocations : StartBrowserReturns(t)
    \/ \E t \in Invocations : ToolFinished(t)
    \/ PageCloses

SpecServer == Init /\ [][SrvNext]_vars

\* C19: a tool touches the page only after ensure_started has returned, and
\* whenever ensure_started returns normally ctx.auth.page exists and is not
\* closed, ctx.order exists, and ctx.order operates on that same page.
C19_GuardLeavesSessionLive ==
    \A t \in Invocations : toolPc[t] = "acting" => guard_ok[t]

\* C20: overlapping tool invocations are serialized: the second begins
\* neither its liveness check nor its page actions before the first has
\* finished, so at most one relaunch is in progress and no two invocations
\* act on the page at the same time.
C20_InvocationsSerialized ==
    /\ Cardinality({t \in Invocations : toolPc[t] # "idle"}) <= 1
    /\ Cardinality({t \in Invocations : toolPc[t] \in {"launching", "launched"}}) <= 1
    /\ Cardinality({t \in Invocations : toolPc[t] = "acting"}) <= 1

(***************************************************************************)
(* BlinkitAPIService.start / stop over BlinkitAPIClient.start_session /    *)
(* close_session, and the liveness test at the head of _make_request.      *)
(***************************************************************************)
MaxRequests == 4

EntryPoints == {"search_products", "get_cart", "place_order"}

\* BlinkitAPIClient.start_session: a new ClientSession unless one is open.
start_session(sess) == IF sess = "open" THEN sess ELSE "open"

\* BlinkitAPIClient.close_session
close_session(sess) == IF sess = "open" THEN "closed" ELSE sess

\* BlinkitAPIService.start: guarded by the service's own flag.
service_start_session(started, sess) == IF ~started THEN start_session(sess) ELSE sess

\* _make_request: `if not self.session: await self.start_session()`
request_session(sess) == IF sess = "None" THEN start_session(sess) ELSE sess

\* An entry point of the service: `await self.start()`, then the module's
\* method issues its request through _make_request.
ServiceOperation ==
    /\ Len(sent_on) < MaxRequests
    /\ \E entry \in EntryPoints :
         LET s1 == service_start_session(session_started, http_session)
             s2 == request_session(s1) IN
         /\ http_session' = s2
         /\ session_started' = TRUE
         /\ sent_on' = Append(sent_on, [entry |-> entry, session |-> s2])
    /\ UNCHANGED nonSessVars

\* BlinkitAPIService.stop
ServiceStop ==
    /\ http_session' = IF session_started THEN close_session(http_session) ELSE http_session
    /\ session_started' = FALSE
    /\ UNCHANGED sent_on
    /\ UNCHANGED nonSessVars

\* The client's session is closed behind the service's back: the client's
\* own close_session / __aexit__ is used on service.client.
ClientSessionClosed ==
    /\ http_session = "open"
    /\ http_session' = close_session(http_session)
    /\ UNCHANGED <<session_started, sent_on>>
    /\ UNCHANGED nonSessVars

SessNext ==
    \/ ServiceOperation
    \/ ServiceStop
    \/ ClientSessionClosed

SpecSession == Init /\ [][SessNext]_vars

\* C21: every entry point re-establishes an open session before issuing a
\* request when the session was closed (by stop() or unexpectedly): no
\* request is sent on a closed session.
C21_NoRequestOnClosedSession ==
    \A i \in 1..Len(sent_on) : sent_on[i].session = "open"

(***************************************************************************)
(* BlinkitAuth._save_session / load_session and the client they restore    *)
(* the token and the cookies into.                                         *)
(***************************************************************************)
MaxDays == 9

session_ttl_days == 7

Tokens == {"tokA", "tokB"}
Cookies == {"gr_1_deviceId", "gr_1_accessToken"}

\* The methods BlinkitAPIClient defines for tokens and cookies; calling any
\* other name on the client raises AttributeError.
ClientMethods == {"set_auth_tokens", "is_authenticated", "load_auth_tokens_from_session",
                  "save_auth_tokens_to_session"}

\* _save_session: the record written for a LoginResponse.
_save_session(auth_token, cookies, now) ==
    [auth_token |-> auth_token, cookies |-> cookies, expires_at |-> now + session_ttl_days]

\* load_session on an existing file: expired -> False; then the restore
\* calls self.client.set_auth_token / set_session_cookies for a non-empty
\* token / cookie set; any exception -> False.
load_session(file, now) ==
    IF file.expires_at < now THEN [ret |-> "False", restored |-> FALSE]
    ELSE IF file.auth_token # "None" /\ "set_auth_token" \notin ClientMethods
         THEN [ret |-> "False", restored |-> FALSE]
    ELSE IF file.cookies # {} /\ "set_session_cookies" \notin ClientMethods
         THEN [ret |-> "False", restored |-> FALSE]
    ELSE [ret |-> "True", restored |-> TRUE]

\* A successful authentication ends with _save_session(login_response).
SaveSession ==
    /\ \E tok \in Tokens, cks \in SUBSET Cookies :
         /\ session_file' = _save_session(tok, cks, today)
         /\ client_token' = tok
         /\ client_cookies' = cks
         /\ current_login' = tok
    /\ loaded' = "none"
    /\ UNCHANGED today
    /\ UNCHANGED nonAuthVars

\* A day passes.
DayPasses ==
    /\ today < MaxDays
    /\ today' = today + 1
    /\ UNCHANGED <<session_file, client_token, client_cookies, current_login, loaded>>
    /\ UNCHANGED nonAuthVars

\* The process restarts: a new client and a new BlinkitAuth.
ProcessRestart ==
    /\ client_token' = "None"
    /\ client_cookies' = {}
    /\ current_login' = "None"
    /\ loaded' = "none"
    /\ UNCHANGED <<session_file, today>>
    /\ UNCHANGED nonAuthVars

\* load_session()
LoadSession ==
    /\ loaded = "none"
    /\ current_login = "None"
    /\ IF session_file = NoFile
       THEN /\ loaded' = "False"
            /\ UNCHANGED <<client_token, client_cookies, current_login>>
       ELSE LET r == load_session(session_file, today) IN
            /\ loaded' = r.ret
            /\ client_token' = IF r.restored THEN session_file.auth_token ELSE client_token
            /\ client_cookies' = IF r.restored THEN session_file.cookies ELSE client_cookies
            /\ current_login' = IF r.restored THEN session_file.auth_token ELSE current_login
    /\ UNCHANGED <<session_file, today>>
    /\ UNCHANGED nonAuthVars

AuthNext ==
    \/ SaveSession
    \/ DayPasses
    \/ ProcessRestart
    \/ LoadSession

SpecAuthSession == Init /\ [][AuthNext]_vars

\* BlinkitAuth.is_authenticated
is_authenticated == current_login # "None" /\ (client_token # "None" \/ client_cookies # {})

\* C22: a record written by _save_session after a successful authentication
\* and loaded before its expiry makes load_session return true and restores
\* the same token and cookies into the client; is_authenticated() is true.
C22_SessionRoundTrip ==
    (loaded # "none" /\ session_file # NoFile /\ today <= session_file.expires_at) =>
        /\ loaded = "True"
        /\ client_token = session_file.auth_token
        /\ client_cookies = session_file.cookies
        /\ is_authenticated

(***************************************************************************)
(* Argument validation at the head of BlinkitCart.add_to_cart,             *)
(* update_cart_item, BlinkitSearch.search_products,                        *)
(* BlinkitAuth.login_with_phone and verify_otp, and what the calls do to   *)
(* the request count, the cart cache and the cookies when they go on.      *)
(***************************************************************************)
MaxIssued == 6

MaxEndpoints == 4

\* A text of n copies of the character c.
Rep(c, n) == [i \in 1..n |-> c]

ValQuantities == -2..2
ValQueries == {<<>>, <<" ", " ">>, <<"m">>, <<" ", "m", " ">>}
ValPhones == {<<>>, Rep("9", 9), Rep("9", 10), Rep("9", 11), Rep("9", 9) \o <<"a">>, <<"+">> \o Rep("9", 9)}
ValOtps == {<<>>, Rep("1", 3), Rep("1", 4), Rep("1", 5), Rep("1", 6), Rep("1", 7),
            Rep("1", 3) \o <<"x">>, Rep("1", 5) \o <<" ">>}

\* str.isdigit()
isdigit(s) == Len(s) > 0 /\ \A i \in 1..Len(s) : s[i] \in Digits

\* str.strip()
RECURSIVE lstrip(_)
lstrip(s) == IF s # <<>> /\ Head(s) = " " THEN lstrip(Tail(s)) ELSE s

RECURSIVE rstrip(_)
rstrip(s) == IF s # <<>> /\ s[Len(s)] = " " THEN rstrip(SubSeq(s, 1, Len(s) - 1)) ELSE s

strip(s) == rstrip(lstrip(s))

\* The parameters _make_request accepts; get()/post() forward their extra
\* keyword arguments to it, and an unknown one raises TypeError before
\* anything is sent.
MakeRequestParams == {"method", "endpoint", "data", "params", "headers", "use_jumbo"}

post_accepts(kwargs) == kwargs \subseteq MakeRequestParams

\* if quantity <= 0: raise ValueError
add_rejects_as_negative_only(qty) == qty < 0
add_rejects(qty) == qty <= 0

\* if qty < 0: raise ValueError
update_rejects(qty) == qty < 0

\* if not query.strip(): raise ValueError
search_rejects(query) == strip(query) = <<>>

\* if not phone_number.isdigit() or len(phone_number) != 10: raise ValidationError
login_rejects(phone_number) == ~isdigit(phone_number) \/ Len(phone_number) # 10

\* if not otp.isdigit() or len(otp) not in [4, 6]: raise ValidationError
otp_rejects(otp) == ~isdigit(otp) \/ Len(otp) \notin {4, 6}

\* The raise at the head of the function: nothing else happens.
Rejected(call, error) ==
    /\ val_call' = call
    /\ val_outcome' = error
    /\ UNCHANGED <<requests_issued, cache_held, jar_cookies>>

\* The function goes on to its endpoints: between least and most requests
\* are issued, each response may set cookies, and the cart cache is
\* dropped when a cart change succeeded.
GoesOn(call, least, most, drops_cache) ==
    /\ val_call' = call
    /\ \E n \in least..most, ok \in BOOLEAN, set \in SUBSET Cookies :
         /\ requests_issued + n <= MaxIssued
         /\ requests_issued' = requests_issued + n
         /\ jar_cookies' = IF n > 0 THEN jar_cookies \cup set ELSE jar_cookies
         /\ val_outcome' = IF ok /\ n > 0 THEN "returned" ELSE "raised"
         /\ cache_held' = IF ok /\ n > 0 /\ drops_cache THEN "None" ELSE cache_held

Val_add_to_cart ==
    /\ \E q \in ValQuantities :
         LET call == [op |-> "add_to_cart", quantity |-> q, text |-> <<>>] IN
         IF add_rejects(q) THEN Rejected(call, "ValueError")
         ELSE GoesOn(call, 1, MaxEndpoints, TRUE)
    /\ UNCHANGED nonValVars

Val_update_cart_item ==
    /\ \E q \in ValQuantities :
         LET call == [op |-> "update_cart_item", quantity |-> q, text |-> <<>>] IN
         IF update_rejects(q) THEN Rejected(call, "ValueError")
         ELSE GoesOn(call, 1, MaxEndpoints, TRUE)
    /\ UNCHANGED nonValVars

Val_search_products ==
    /\ \E query \in ValQueries :
         LET call == [op |-> "search_products", quantity |-> 0, text |-> query] IN
         IF search_rejects(query) THEN Rejected(call, "ValueError")
         ELSE GoesOn(call, 1, MaxEndpoints, FALSE)
    /\ UNCHANGED nonValVars

\* Every post of login_with_phone and verify_otp carries require_auth=False.
Val_login_with_phone ==
    /\ \E phone \in ValPhones :
         LET call == [op |-> "login_with_phone", quantity |-> 0, text |-> phone] IN
         IF login_rejects(phone) THEN Rejected(call, "ValidationError")
         ELSE IF post_accepts({"data", "require_auth"}) THEN GoesOn(call, 1, MaxEndpoints, FALSE)
         ELSE GoesOn(call, 0, 0, FALSE)
    /\ UNCHANGED nonValVars

Val_verify_otp ==
    /\ \E otp \in ValOtps :
         LET call == [op |-> "verify_otp", quantity |-> 0, text |-> otp] IN
         IF otp_rejects(otp) THEN Rejected(call, "ValidationError")
         ELSE IF post_accepts({"data", "require_auth"}) THEN GoesOn(call, 1, MaxEndpoints, FALSE)
         ELSE GoesOn(call, 0, 0, FALSE)
    /\ UNCHANGED nonValVars

\* get_cart fills the cache, with the fetched cart or with the empty one.
Val_get_cart ==
    /\ val_call' = [op |-> "get_cart", quantity |-> 0, text |-> <<>>]
    /\ \E n \in 1..MaxEndpoints, set \in SUBSET Cookies :
         /\ requests_issued + n <= MaxIssued
         /\ requests_issued' = requests_issued + n
         /\ jar_cookies' = jar_cookies \cup set
    /\ val_outcome' = "returned"
    /\ cache_held' = "cart"
    /\ UNCHANGED nonValVars

ValNext ==
    \/ Val_add_to_cart
    \/ Val_update_cart_item
    \/ Val_search_products
    \/ Val_login_with_phone
    \/ Val_verify_otp
    \/ Val_get_cart

SpecValidate == Init /\ [][ValNext]_vars

\* The inputs the validation is to refuse.
InvalidCall(c) ==
    \/ c.op = "add_to_cart" /\ c.quantity <= 0
    \/ c.op = "update_cart_item" /\ c.quantity < 0
    \/ c.op = "search_products" /\ \A i \in 1..Len(c.text) : c.text[i] = " "
    \/ c.op = "login_with_phone" /\ ~(Len(c.text) = 10 /\ \A i \in 1..Len(c.text) : c.text[i] \in Digits)
    \/ c.op = "verify_otp" /\ ~(Len(c.text) \in {4, 6} /\ \A i \in 1..Len(c.text) : c.text[i] \in Digits)

\* C23: a call with an invalid argument ends with a validation error, issues
\* no request and leaves the cart cache and the cookies as they were.
C23_InvalidInputRejectedFirst ==
    [][InvalidCall(val_call') =>
         /\ val_outcome' \in {"ValueError", "ValidationError"}
         /\ requests_issued' = requests_issued
         /\ cache_held' = cache_held
         /\ jar_cookies' = jar_cookies]_vars

\* C23 witness: an add with quantity 0 was refused while a cart was cached,
\* requests had been issued and cookies were held.
C23_Witness ==
    /\ val_call.op = "add_to_cart" /\ val_call.quantity = 0
    /\ val_outcome = "ValueError"
    /\ cache_held = "cart"
    /\ requests_issued > 0
    /\ jar_cookies # {}

\* C24: in page mode an add or a remove called with quantity <= 0 issues no
\* click (no ADD, no '+', no '-'), so the cart stays as it was.
C24_NoClickWithoutQuantity ==
    /\ (crtPc \notin {"closed", "idle"} /\ quantity <= 0) => clicks = <<>>
    /\ (removal.called /\ removal.quantity <= 0) => removal.clicks = 0

\* C25: what get_cart returns when every endpoint failed can be told apart
\* from the cart of a successful fetch: no valid cart response parses to it.
C25_FailureDistinctFromFetchedCart ==
    (cart_data = NoPayload /\ parsed # NoCart) =>
        \A d \in CartPayloads : ParseCartData(d) # parsed

(***************************************************************************)
(* BlinkitAuth.login_with_phone: the loop over login_endpoints.            *)
(***************************************************************************)
login_endpoints == <<"/v2/accounts/auth_key/", "/api/auth/login", "/v1/auth/login", "/auth/phone">>

\* What an endpoint answers when asked: a body with a true 'success', a body
\* with status 'success', a body with neither, or a fault _make_request raises.
LoginAnswers == {"success_flag", "status_success", "no_success", "RateLimitError"}

\* response.get('success') or response.get('status') == 'success'
login_response_ok(answer) == answer \in {"success_flag", "status_success"}

\* login_with_phone(phone_number) is called.
Call_login_with_phone ==
    /\ lgPc = "idle"
    /\ \E phone \in {Rep("9", 9), Rep("9", 10)}, answers \in [1..Len(login_endpoints) -> LoginAnswers] :
         /\ server_answers' = answers
         /\ IF login_rejects(phone)
            THEN lgPc' = "done" /\ login_result' = "ValidationError"
            ELSE lgPc' = "loop" /\ login_result' = "none"
    /\ lgIdx' = 1
    /\ lgRequested' = <<>>
    /\ lgLastError' = "None"
    /\ UNCHANGED nonLoginVars

\* One iteration: client.post(endpoint, data=login_data, require_auth=False),
\* the test of the response, the except clause.
LoginTryEndpoint ==
    /\ lgPc = "loop"
    /\ lgIdx <= Len(login_endpoints)
    /\ IF ~post_accepts({"data", "require_auth"})
       THEN /\ lgLastError' = "TypeError"
            /\ lgIdx' = lgIdx + 1
            /\ UNCHANGED <<lgPc, lgRequested, login_result>>
       ELSE /\ lgRequested' = Append(lgRequested, login_endpoints[lgIdx])
            /\ IF login_response_ok(server_answers[lgIdx])
               THEN /\ login_result' = "otp_sent"
                    /\ lgPc' = "done"
                    /\ UNCHANGED <<lgIdx, lgLastError>>
               ELSE /\ lgLastError' = IF server_answers[lgIdx] = "RateLimitError"
                                      THEN "RateLimitError" ELSE lgLastError
                    /\ lgIdx' = lgIdx + 1
                    /\ UNCHANGED <<lgPc, login_result>>
    /\ UNCHANGED server_answers
    /\ UNCHANGED nonLoginVars

\* raise AuthenticationError("All login endpoints failed. Last error: ...")
LoginExhausted ==
    /\ lgPc = "loop"
    /\ lgIdx > Len(login_endpoints)
    /\ lgPc' = "done"
    /\ login_result' = "AuthenticationError"
    /\ UNCHANGED <<lgIdx, server_answers, lgRequested, lgLastError>>
    /\ UNCHANGED nonLoginVars

\* The caller has the outcome.
LoginReturn ==
    /\ lgPc = "done"
    /\ lgPc' = "idle"
    /\ UNCHANGED <<lgIdx, server_answers, lgRequested, lgLastError, login_result>>
    /\ UNCHANGED nonLoginVars

LoginNext ==
    \/ Call_login_with_phone
    \/ LoginTryEndpoint
    \/ LoginExhausted
    \/ LoginReturn

SpecLogin == Init /\ [][LoginNext]_vars

\* The endpoints that would answer with a success flag or status.
Answering == {i \in DOMAIN server_answers : login_response_ok(server_answers[i])}

\* C26: with a valid phone the endpoints are requested in the listed order up
\* to the first one whose response carries success, and 'otp_sent' is the
\* result then; AuthenticationError only when none of them answered so.
C26_FirstSuccessfulLoginEndpoint ==
    (lgPc = "done" /\ login_result # "ValidationError") =>
        IF Answering = {}
        THEN login_result = "AuthenticationError" /\ lgRequested = login_endpoints
        ELSE LET first == CHOOSE i \in Answering : \A j \in Answering : i <= j IN
             /\ login_result = "otp_sent"
             /\ lgRequested = SubSeq(login_endpoints, 1, first)

(***************************************************************************)
(* The identifier of the record that _parse_cart_item,                     *)
(* _parse_single_address and _parse_single_product build.                  *)
(***************************************************************************)
\* The parser returned None.
NoRecord == [none |-> TRUE]

\* A field's value: missing or null, an empty text, a text, a number.
Null == [kind |-> "null", text |-> "None"]
IdValues == {Null, [kind |-> "text", text |-> ""], [kind |-> "text", text |-> "p1"],
             [kind |-> "number", text |-> "7"]}

\* Python truth of a field value.
Truthy(v) == v.kind # "null" /\ v.text # ""

\* a or b or ... : the first true operand, else the last one.
RECURSIVE OrChain(_)
OrChain(values) ==
    IF Len(values) = 1 \/ Truthy(Head(values)) THEN Head(values)
    ELSE OrChain(Tail(values))

\* The fields each parser reads for the identifier.
IdFieldNames(parser) ==
    CASE parser = "cart_item" -> <<"product_id", "id", "sku">>
      [] parser = "address" -> <<"id", "address_id">>
      [] parser = "product" -> <<"id", "product_id", "sku", "pid">>

\* str(hash(str(item)))
HashOfItem == [kind |-> "text", text |-> "hash-of-item"]

\* product_id = str(a or b or c); if not product_id: return None
str_of_or_chain(values) ==
    LET ident == OrChain(values).text IN
    IF ident = "" THEN NoRecord ELSE [id |-> ident]

\* product_id = a or b or c or d or str(hash(str(item))); if not product_id:
\* return None; ... id=str(product_id)
or_chain_with_hash(values) ==
    LET ident == OrChain(values \o <<HashOfItem>>) IN
    IF ~Truthy(ident) THEN NoRecord ELSE [id |-> ident.text]

parse_identity(parser, values) ==
    IF parser = "product" THEN or_chain_with_hash(values) ELSE str_of_or_chain(values)

\* A parser is handed one element of a response.
ReceiveRecord ==
    /\ \E parser \in {"cart_item", "address", "product"} :
         /\ id_parser' = parser
         /\ id_fields' \in [1..Len(IdFieldNames(parser)) -> IdValues]
    /\ id_record' = NotParsed
    /\ UNCHANGED nonIdentVars

\* The parser runs.
ParseIdentity ==
    /\ id_parser # "none"
    /\ id_record = NotParsed
    /\ id_record' = parse_identity(id_parser, id_fields)
    /\ UNCHANGED <<id_parser, id_fields>>
    /\ UNCHANGED nonIdentVars

IdentNext ==
    \/ ReceiveRecord
    \/ ParseIdentity

SpecIdentity == Init /\ [][IdentNext]_vars

\* The texts of the identity values the data carries.
PresentIds == {id_fields[i].text : i \in {j \in DOMAIN id_fields : Truthy(id_fields[j])}}

\* C27: data without an identity field yields no record; a record's id is
\* an identity value of the data, never the text of null or a made-up one.
C27_NoRecordWithoutIdentity ==
    id_record # NotParsed =>
        IF PresentIds = {} THEN id_record = NoRecord
        ELSE id_record # NoRecord /\ id_record.id \in PresentIds

(***************************************************************************)
(* BlinkitCheckout._parse_order_response: the status of the Order.         *)
(***************************************************************************)
Lowercase == <<"a", "b", "c", "d", "e", "f", "g", "h", "i", "j", "k", "l", "m", "n", "o", "p", "q", "r", "s", "t", "u", "v", "w", "x", "y", "z">>
Uppercase == <<"A", "B", "C", "D", "E", "F", "G", "H", "I", "J", "K", "L", "M", "N", "O", "P", "Q", "R", "S", "T", "U", "V", "W", "X", "Y", "Z">>

\* str.lower() and str.upper(), character by character.
LowerChar(c) == IF \E i \in 1..Len(Uppercase) : Uppercase[i] = c
                THEN Lowercase[CHOOSE i \in 1..Len(Uppercase) : Uppercase[i] = c] ELSE c
UpperChar(c) == IF \E i \in 1..Len(Lowercase) : Lowercase[i] = c
                THEN Uppercase[CHOOSE i \in 1..Len(Lowercase) : Lowercase[i] = c] ELSE c
lower(t) == [i \in 1..Len(t) |-> LowerChar(t[i])]
upper(t) == [i \in 1..Len(t) |-> UpperChar(t[i])]
capitalize(t) == [i \in 1..Len(t) |-> IF i = 1 THEN UpperChar(t[i]) ELSE t[i]]

\* The members of OrderStatus, by value.
OrderStatus == {"pending", "confirmed", "preparing", "out_for_delivery", "delivered", "cancelled"}

\* status_mapping
status_mapping(t) == IF t \in OrderStatus THEN t ELSE "unmapped"

\* The tokens, spelled out.
Spelling(status) ==
    CASE status = "pending" -> <<"p", "e", "n", "d", "i", "n", "g">>
      [] status = "confirmed" -> <<"c", "o", "n", "f", "i", "r", "m", "e", "d">>
      [] status = "preparing" -> <<"p", "r", "e", "p", "a", "r", "i", "n", "g">>
      [] status = "out_for_delivery" -> <<"o", "u", "t", "_", "f", "o", "r", "_", "d", "e", "l", "i", "v", "e", "r", "y">>
      [] status = "delivered" -> <<"d", "e", "l", "i", "v", "e", "r", "e", "d">>
      [] status = "cancelled" -> <<"c", "a", "n", "c", "e", "l", "l", "e", "d">>

\* A value of the response's 'status': the key is missing, null, a number,
\* or a text.
StatusText(t) == [kind |-> "text", chars |-> t]
StatusValues ==
    {[kind |-> "missing", chars |-> <<>>], [kind |-> "null", chars |-> <<>>],
     [kind |-> "number", chars |-> <<>>], StatusText(<<>>), StatusText(<<"s", "h", "i", "p", "p", "e", "d">>),
     StatusText(<<" ", "d", "e", "l", "i", "v", "e", "r", "e", "d">>)}
    \cup UNION {{StatusText(Spelling(st)), StatusText(upper(Spelling(st))),
                 StatusText(capitalize(Spelling(st)))} : st \in OrderStatus}

\* The key of status_mapping that a lower-cased text is, if any.
KeyOf(t) == IF \E st \in OrderStatus : Spelling(st) = t
            THEN CHOOSE st \in OrderStatus : Spelling(st) = t ELSE "no key"

\* status_str = response.get('status', 'pending').lower();
\* status = status_mapping.get(status_str, OrderStatus.PENDING).
\* .lower() on a value that is not a text raises AttributeError.
parse_status(value) ==
    IF value.kind = "missing" THEN "pending"
    ELSE IF value.kind # "text" THEN "AttributeError"
    ELSE LET st == status_mapping(KeyOf(lower(value.chars))) IN
         IF st = "unmapped" THEN "pending" ELSE st

\* _parse_order_response: any exception in the body becomes OrderError.
_parse_order_response(response) ==
    LET status == parse_status(response.status) IN
    IF status = "AttributeError" THEN [kind |-> "OrderError", status |-> "none"]
    ELSE IF response.total_amount.kind \notin {"absent", "number"}
         THEN [kind |-> "OrderError", status |-> "none"]
    ELSE [kind |-> "Order", status |-> status]

\* place_order / get_order_status got a response to parse.
ReceiveOrderResponse ==
    /\ \E st \in StatusValues, amount \in {Absent, BadText, Amount(0), Amount(30)} :
         order_response' = [status |-> st, total_amount |-> amount]
    /\ order_parsed' = NotParsed
    /\ UNCHANGED nonOrderVars

ParseOrderResponse ==
    /\ order_response # NoOrderResponse
    /\ order_parsed = NotParsed
    /\ order_parsed' = _parse_order_response(order_response)
    /\ UNCHANGED order_response
    /\ UNCHANGED nonOrderVars

OrderNext ==
    \/ ReceiveOrderResponse
    \/ ParseOrderResponse

SpecOrder == Init /\ [][OrderNext]_vars

\* The status a value names, whatever its letter case; pending otherwise.
NamedStatus(value) ==
    IF value.kind = "text" /\ \E st \in OrderStatus :
           value.chars \in {Spelling(st), upper(Spelling(st)), capitalize(Spelling(st))}
    THEN CHOOSE st \in OrderStatus :
           value.chars \in {Spelling(st), upper(Spelling(st)), capitalize(Spelling(st))}
    ELSE "pending"

\* C28: a response whose other fields parse yields an Order whose status is
\* the one the token names in any letter case, and pending for everything
\* else, a missing status included; the status never makes the parse fail.
C28_StatusPermissive ==
    (order_parsed # NotParsed /\ order_response.total_amount.kind \in {"absent", "number"}) =>
        /\ order_parsed.kind = "Order"
        /\ order_parsed.status = NamedStatus(order_response.status)

(***************************************************************************)
(* Prices and amounts: BlinkitSearch._extract_price, BlinkitCart           *)
(* ._extract_amount and the price of _parse_cart_item.                     *)
(***************************************************************************)
\* The values a price or amount field carries.
MoneyValues ==
    {Absent, Amount(0), Amount(46), Text(<<"4", "6">>), Text(<<"R", "s", "4", "6">>),
     Text(<<"R", "s", ".", " ", "8", "9", "9">>), Text(<<"1", ",", "2", "9", "9">>), BadText}

\* re.findall(r'\d+\.?\d*', value.replace(',', ''))[0], for whole numerals:
\* the first maximal run of digits, <<>> when there is none.
first_numeric_run(chars) ==
    LET t == SelectSeq(chars, LAMBDA c : c # ",")
        starts == {i \in 1..Len(t) : t[i] \in Digits}
    IN IF starts = {} THEN <<>>
       ELSE LET a == CHOOSE i \in starts : \A j \in starts : i <= j
                b == CHOOSE j \in a..Len(t) :
                       /\ \A k \in a..j : t[k] \in Digits
                       /\ j = Len(t) \/ t[j + 1] \notin Digits
            IN SubSeq(t, a, b)

\* The loop of _extract_price over the top-level price fields; `rest` is
\* what follows the loop.
RECURSIVE price_from_fields(_, _)
price_from_fields(values, rest) ==
    IF values = <<>> THEN rest
    ELSE LET value == Head(values) IN
         IF value.kind = "text" /\ first_numeric_run(value.chars) # <<>>
         THEN NumeralValue(first_numeric_run(value.chars))
         ELSE IF value.kind = "number" THEN value.n
         ELSE price_from_fields(Tail(values), rest)

\* _extract_price(item): item = <<price, selling_price, price_info.price>>.
_extract_price(item) ==
    price_from_fields(SubSeq(item, 1, 2), IF float(item[3]).ok THEN float(item[3]).n ELSE 0)

\* price = float(item_data.get('price', 0) or item_data.get('unit_price', 0));
\* an exception makes _parse_cart_item return None.
cart_item_price(item_data) ==
    LET truthy(v) == \/ v.kind = "number" /\ v.n # 0
                     \/ v.kind = "text" /\ v.chars # <<>>
        chosen == IF truthy(item_data[1]) THEN item_data[1]
                  ELSE IF item_data[2].kind = "absent" THEN Amount(0) ELSE item_data[2]
    IN IF float(chosen).ok THEN [kind |-> "number", n |-> float(chosen).n]
       ELSE [kind |-> "no item", n |-> 0]

\* A product, a cart payload or a cart item arrives.
ReceiveMoney ==
    /\ \E source \in {"product_price", "cart_amount", "cart_item_price"} :
         /\ money_source' = source
         /\ money_fields' \in [1..(IF source = "product_price" THEN 3 ELSE 2) -> MoneyValues]
    /\ money_result' = NotParsed
    /\ UNCHANGED nonMoneyVars

\* The price or amount is extracted.
ExtractMoney ==
    /\ money_source # "none"
    /\ money_result = NotParsed
    /\ money_result' =
         CASE money_source = "product_price" ->
                [kind |-> "number", n |-> _extract_price(money_fields)]
           [] money_source = "cart_amount" ->
                [kind |-> "number",
                 n |-> _extract_amount([total |-> money_fields[1], total_amount |-> money_fields[2]],
                                       <<"total", "total_amount", "grand_total">>)]
           [] money_source = "cart_item_price" -> cart_item_price(money_fields)
    /\ UNCHANGED <<money_source, money_fields>>
    /\ UNCHANGED nonMoneyVars

MoneyNext ==
    \/ ReceiveMoney
    \/ ExtractMoney

SpecMoney == Init /\ [][MoneyNext]_vars

\* What a field yields: a number itself, a text its first numeric run.
Yields(v) == v.kind = "number" \/ (v.kind = "text" /\ first_numeric_run(v.chars) # <<>>)
YieldOf(v) == IF v.kind = "number" THEN v.n ELSE NumeralValue(first_numeric_run(v.chars))

\* The top-level fields of the data (a product's third value is nested).
TopLevel == SubSeq(money_fields, 1, 2)

\* C29: the extraction always returns a number: the number or the first
\* numeric run of the first field that yields one, and 0 when no field does.
C29_MonetaryExtractionTotal ==
    money_result # NotParsed =>
        /\ money_result.kind = "number"
        /\ LET yielding == {i \in 1..2 : Yields(TopLevel[i])} IN
           IF yielding # {}
           THEN money_result.n = YieldOf(TopLevel[CHOOSE i \in yielding : \A j \in yielding : i <= j])
           ELSE (\A i \in DOMAIN money_fields \ {1, 2} : money_fields[i].kind = "absent")
                    => money_result.n = 0

WorkflowRunning == flowPc \notin {"idle", "done"} \/ wfPc \notin {"idle", "done"}

\* The caller asks to cancel the running workflow.
SignalCancellation ==
    /\ ~cancel_signalled
    /\ WorkflowRunning
    /\ cancel_signalled' = TRUE
    /\ UNCHANGED nonCancelVars

\* The cancelled call is over; the request is forgotten with it.
CancellationOver ==
    /\ cancel_signalled
    /\ flowPc = "idle" /\ wfPc = "idle"
    /\ cancel_signalled' = FALSE
    /\ UNCHANGED nonCancelVars

CancelNext ==
    \/ (~cancel_signalled /\ wfPc = "idle" /\ Call_complete_order_flow)
    \/ FlowSearchAndAdd
    \/ PlaceOrderProceed
    \/ PlaceOrderMarkers
    \/ FlowBranch
    \/ FlowSelectAddress
    \/ FlowProceedToPay
    \/ FlowSelectCod
    \/ FlowPlaceCodOrder
    \/ FlowReturn
    \/ (~cancel_signalled /\ flowPc = "idle" /\ Call_complete_order_workflow)
    \/ WfSearch
    \/ WfAddToCart
    \/ WfCartVerification
    \/ WfAddresses
    \/ WfPlaceOrder
    \/ WfReturn
    \/ SignalCancellation
    \/ CancellationOver

SpecCancel == Init /\ [][CancelNext]_vars

\* C31: once cancellation has been signalled, the running workflow starts
\* no further step: no call is added to those it has made.
C31_NoStepAfterCancellation ==
    [][cancel_signalled =>
         /\ Len(flow_steps') <= Len(flow_steps)
         /\ Len(wfCalls') <= Len(wfCalls)]_vars

(***************************************************************************)
(* BlinkitCheckout.place_order: the loop over order_endpoints.             *)
(***************************************************************************)
order_endpoints == <<"/v2/orders/", "/api/orders/place", "/v1/checkout/place-order", "/orders/create">>

\* The responses to the order post: the fields the classifier and the
\* parser read.  A transport error structure has a numeric status only.
OrderResponses ==
    [success : BOOLEAN, order_id : BOOLEAN,
     status : {[kind |-> "missing", chars |-> <<>>], [kind |-> "null", chars |-> <<>>],
               [kind |-> "number", chars |-> <<>>],
               StatusText(<<"s", "u", "c", "c", "e", "s", "s">>), StatusText(Spelling("confirmed"))},
     total_amount : {Absent, BadText, Amount(30)}]

\* _is_successful_order_response (no response of the model carries 'id')
_is_successful_order_response(response) ==
    \/ response.success
    \/ response.status = StatusText(<<"s", "u", "c", "c", "e", "s", "s">>)
    \/ response.order_id

Call_api_place_order ==
    /\ apoPc = "idle"
    /\ apoPc' = "loop"
    /\ apoIdx' = 1
    /\ apo_posted' = <<>>
    /\ apo_response' = NoOrderResponse
    /\ apo_result' = "none"
    /\ UNCHANGED nonApoVars

\* One iteration: the post, the classification, the parse; an exception of
\* any of them is caught and the loop goes on.
ApiPlaceOrderTry ==
    /\ apoPc = "loop"
    /\ apoIdx <= Len(order_endpoints)
    /\ \/ \E response \in OrderResponses :
            LET placed == _is_successful_order_response(response) IN
            /\ apo_response' = response
            /\ apo_posted' = Append(apo_posted, [endpoint |-> order_endpoints[apoIdx],
                                                 placed |-> placed])
            /\ IF placed /\ _parse_order_response(response).kind = "Order"
               THEN apoPc' = "done" /\ apo_result' = "Order" /\ UNCHANGED apoIdx
               ELSE apoIdx' = apoIdx + 1 /\ UNCHANGED <<apoPc, apo_result>>
       \/ \* client.post raised (rate limit, authentication)
          /\ apo_response' = NoOrderResponse
          /\ apo_posted' = Append(apo_posted, [endpoint |-> order_endpoints[apoIdx],
                                               placed |-> FALSE])
          /\ apoIdx' = apoIdx + 1
          /\ UNCHANGED <<apoPc, apo_result>>
    /\ UNCHANGED nonApoVars

\* raise OrderError("Failed to place order: ...")
ApiPlaceOrderExhausted ==
    /\ apoPc = "loop"
    /\ apoIdx > Len(order_endpoints)
    /\ apoPc' = "done"
    /\ apo_result' = "OrderError"
    /\ UNCHANGED <<apoIdx, apo_posted, apo_response>>
    /\ UNCHANGED nonApoVars

ApiPlaceOrderReturn ==
    /\ apoPc = "done"
    /\ apoPc' = "idle"
    /\ UNCHANGED <<apoIdx, apo_posted, apo_response, apo_result>>
    /\ UNCHANGED nonApoVars

ApoNext ==
    \/ Call_api_place_order
    \/ ApiPlaceOrderTry
    \/ ApiPlaceOrderExhausted
    \/ ApiPlaceOrderReturn

SpecPlaceOrder == Init /\ [][ApoNext]_vars

\* C32: once a response has been classified as a successful placement the
\* order is posted to no further endpoint.
C32_NoPostAfterPlacement ==
    \A i \in 1..Len(apo_posted) : apo_posted[i].placed => i = Len(apo_posted)

\* C33: a cart mutation never classifies an error structure of the transport
\* layer (HTTP status >= 400 with any body, or retries exhausted) as success.
C33_ErrorStructNeverSuccess ==
    (op \in MutatingOps /\ outcomes # <<>> /\ reqResult.kind = "return" /\ reqResult.errstruct) =>
        outcomes[Len(outcomes)].classified # "success"

(***************************************************************************)
(* SearchService: search_product and get_search_results as separate calls, *)
(* with the history of which completed search rendered which product.      *)
(***************************************************************************)
nonCrtSrchVars == <<httpVars, chkVars, parseVars, viewVars, flowVars, wfVars, addrVars, srvVars, sessVars, authVars, valVars, rmVars, loginVars, identVars, orderVars, moneyVars, cancelVars, apoVars, tokVars, selVars, shopVars>>
nonTokVars == <<httpVars, chkVars, pageVars, crtVars, parseVars, viewVars, flowVars, wfVars, addrVars, srvVars, sessVars, authVars, valVars, rmVars, loginVars, identVars, orderVars, moneyVars, cancelVars, apoVars, srchVars, selVars, shopVars>>
nonSelVars == <<httpVars, chkVars, pageVars, crtVars, parseVars, viewVars, flowVars, wfVars, addrVars, srvVars, sessVars, authVars, valVars, rmVars, loginVars, identVars, orderVars, moneyVars, cancelVars, apoVars, srchVars, tokVars, shopVars>>
nonShopVars == <<httpVars, chkVars, pageVars, crtVars, parseVars, viewVars, flowVars, wfVars, addrVars, srvVars, sessVars, authVars, valVars, rmVars, loginVars, identVars, orderVars, moneyVars, cancelVars, apoVars, srchVars, tokVars, selVars>>

\* search_product(query), the search goes through: current_query is set, the
\* query is submitted and the page renders the source's results for it.
SearchProductCompletes ==
    /\ crtPc = "idle"
    /\ \E query \in Queries :
         /\ search_product(query)
         /\ surfaced' = surfaced \cup {<<query, p>> : p \in Range(rendered')}
    /\ UNCHANGED <<cartQty, cap, known_products, crtVars, nonCrtSrchVars>>

\* search_product(query), the search fails: current_query is already set when
\* activating the search bar, finding the input or submitting raises (or the
\* results never replace the old ones); the except clause prints and the page
\* keeps the cards it showed.
SearchProductFails ==
    /\ crtPc = "idle"
    /\ \E query \in Queries : current_query' = query
    /\ UNCHANGED <<rendered, cartQty, cap, known_products, srchVars, crtVars, nonCrtSrchVars>>

SearchNext ==
    \/ StartBrowser
    \/ SearchProductCompletes
    \/ SearchProductFails
    \/ GetSearchResults

SpecSearch == Init /\ [][SearchNext]_vars

\* C34: every known-products entry names a query whose completed search
\* rendered that product.
C34_SourceQuerySurfacedProduct ==
    \A p \in Products :
        known_products[p] # NoEntry => <<known_products[p].source_query, p>> \in surfaced

\* C35: CartService.remove_from_cart never increases a quantity: it clicks
\* neither ADD nor '+', clicks '-' at most `quantity` times, and stops when
\* ADD reappears (the product's quantity reached zero).
C35_RemoveNeverIncreases ==
    [][Call_cart_remove_from_cart =>
         /\ clicks' = clicks
         /\ \A p \in Products : cartQty'[p] <= cartQty[p] /\ cartQty'[p] >= 0
         /\ removal'.clicks >= 0
         /\ removal'.quantity > 0 => removal'.clicks <= removal'.quantity
         /\ \E p \in Products :
              /\ cartQty[p] - cartQty'[p] = removal'.clicks
              /\ \A q \in Products \ {p} : cartQty'[q] = cartQty[q]]_vars

\* a removal of 2 stopped after one click, when ADD reappeared
C35_Witness == removal.called /\ removal.quantity = 2 /\ removal.clicks = 1

(***************************************************************************)
(* BlinkitAPIClient: the tokens and cookies saved to the API session file  *)
(* and loaded back by a fresh client.                                      *)
(***************************************************************************)
\* session_data of save_auth_tokens_to_session, as json.load returns it: the
\* top-level keys are timestamp, auth_tokens and cookies.
session_data_of(toks, jar) ==
    [exists |-> TRUE, keys |-> {"timestamp", "auth_tokens", "cookies"},
     auth_tokens |-> toks, cookies |-> jar]

\* the value under a top-level key of the document
top_level(doc, key) ==
    CASE key = "auth_tokens" -> doc.auth_tokens
      [] key = "cookies" -> doc.cookies
      [] OTHER -> "now"

\* `for token_type in self.auth_tokens.keys(): if token_type in session_data:
\*      self.auth_tokens[token_type] = session_data[token_type]`
loaded_tokens(toks, doc) ==
    [t \in TokenTypes |-> IF t \in doc.keys THEN top_level(doc, t) ELSE toks[t]]

\* self.session_cookies.update(session_data['cookies'])
loaded_cookies(jar, doc) ==
    IF "cookies" \in doc.keys
    THEN [n \in CookieNames |-> IF doc.cookies[n] # "absent" THEN doc.cookies[n] ELSE jar[n]]
    ELSE jar

\* set_auth_tokens(**tokens): a known token type gets the value.
SetAuthTokens ==
    /\ \E t \in TokenTypes, v \in {"None", "tok1"} :
         auth_tokens' = [auth_tokens EXCEPT ![t] = v]
    /\ save_ret' = "none"
    /\ UNCHANGED <<session_cookies, api_session, fresh, nonTokVars>>

\* _make_request stores each cookie of a response in session_cookies.
ReceiveCookie ==
    /\ \E n \in CookieNames, v \in {"ck1", "ck2"} :
         session_cookies' = [session_cookies EXCEPT ![n] = v]
    /\ save_ret' = "none"
    /\ UNCHANGED <<auth_tokens, api_session, fresh, nonTokVars>>

\* save_auth_tokens_to_session(session_file): os.makedirs(os.path.dirname(path))
\* raises for a bare file name (dirname is ''), the except clause returns
\* False; otherwise the document is written and True returned.
SaveAuthTokens ==
    /\ \E session_file_arg \in {"default", "dir/session.json", "session.json"} :
         IF session_file_arg = "session.json"
         THEN /\ save_ret' = "False"
              /\ UNCHANGED api_session
         ELSE /\ save_ret' = "True"
              /\ api_session' = session_data_of(auth_tokens, session_cookies)
    /\ fresh' = NoFresh
    /\ UNCHANGED <<auth_tokens, session_cookies, nonTokVars>>

\* load_auth_tokens_from_session on a fresh client: the API session file if
\* it exists; else the browser session file, whose .blinkit.com cookies are
\* taken, if that exists; else False.
LoadAuthTokens ==
    /\ IF api_session.exists
       THEN fresh' = [ret |-> "True",
                      auth_tokens |-> loaded_tokens(NoTokens, api_session),
                      session_cookies |-> loaded_cookies(NoCookies, api_session)]
       ELSE \E browser_session \in BOOLEAN :
              fresh' = IF browser_session
                       THEN [ret |-> "True", auth_tokens |-> NoTokens,
                             session_cookies |-> [n \in CookieNames |-> "ck1"]]
                       ELSE [ret |-> "False", auth_tokens |-> NoTokens,
                             session_cookies |-> NoCookies]
    /\ UNCHANGED <<auth_tokens, session_cookies, api_session, save_ret, nonTokVars>>

TokNext ==
    \/ SetAuthTokens
    \/ ReceiveCookie
    \/ SaveAuthTokens
    \/ LoadAuthTokens

SpecTokens == Init /\ [][TokNext]_vars

\* C36: after save_auth_tokens_to_session succeeded, a fresh client's
\* load_auth_tokens_from_session returns true and holds the saved token
\* values and cookies.
C36_SaveLoadRoundTrip ==
    (save_ret = "True" /\ fresh.ret # "none") =>
        /\ fresh.ret = "True"
        /\ fresh.auth_tokens = auth_tokens
        /\ fresh.session_cookies = session_cookies

(***************************************************************************)
(* BlinkitAPIService.search_and_add_to_cart: the product is selected by    *)
(* its position in the list the search returned.                           *)
(***************************************************************************)
\* products[i] of a Python list of length n: positions count from 1 here;
\* a negative i counts from the end; 0 stands for IndexError.
py_index(n, i) ==
    IF 0 <= i /\ i < n THEN i + 1
    ELSE IF i < 0 /\ -n <= i THEN n + i + 1
    ELSE 0

SelCall(name, position) == [call |-> name, position |-> position]

\* search_and_add_to_cart(search_query, product_index, quantity)
Call_search_and_add_to_cart ==
    /\ selPc = "idle"
    /\ \E product_index \in -2..MaxResults, qty \in 1..2 :
         selArgs' = [product_index |-> product_index, quantity |-> qty]
    /\ selPc' = "search"
    /\ selFound' = 0
    /\ selCalls' = <<>>
    /\ selResult' = NoSelResult
    /\ UNCHANGED nonSelVars

\* search_products, then the two tests and products[product_index]; any
\* exception ends in the except clause with {'success': False, 'error': str(e)}.
SelSearch ==
    /\ selPc = "search"
    /\ selCalls' = Append(selCalls, SelCall("search_products", 0))
    /\ \E n \in 0..MaxResults, raises \in BOOLEAN :
         /\ selFound' = IF raises THEN 0 ELSE n
         /\ IF raises
            THEN selPc' = "done" /\ selResult' = [success |-> "False", error |-> "SearchError"]
            ELSE IF n = 0
            THEN selPc' = "done" /\ selResult' = [success |-> "False", error |-> "No products found"]
            ELSE IF selArgs.product_index >= n
            THEN selPc' = "done" /\ selResult' = [success |-> "False", error |-> "out of range"]
            ELSE IF py_index(n, selArgs.product_index) = 0
            THEN selPc' = "done" /\ selResult' = [success |-> "False", error |-> "list index out of range"]
            ELSE selPc' = "add" /\ UNCHANGED selResult
    /\ UNCHANGED <<selArgs, nonSelVars>>

\* add_to_cart(selected_product.id, quantity): its boolean is the result's
\* 'success'; a CartError ends in the except clause.
SelAddToCart ==
    /\ selPc = "add"
    /\ selCalls' = Append(selCalls, SelCall("add_to_cart", py_index(selFound, selArgs.product_index)))
    /\ \E add_success \in BOOLEAN :
         selResult' = IF add_success THEN [success |-> "True", error |-> "none"]
                      ELSE [success |-> "False", error |-> "CartError"]
    /\ selPc' = "done"
    /\ UNCHANGED <<selArgs, selFound, nonSelVars>>

\* The caller has the dict.
SelReturn ==
    /\ selPc = "done"
    /\ selPc' = "idle"
    /\ UNCHANGED <<selArgs, selFound, selCalls, selResult, nonSelVars>>

SelNext ==
    \/ Call_search_and_add_to_cart
    \/ SelSearch
    \/ SelAddToCart
    \/ SelReturn

SpecSelect == Init /\ [][SelNext]_vars

\* C37: a product index outside 0..len-1 of the list the search returned,
\* a negative one included, ends the call with an out-of-range failure and
\* add_to_cart is not invoked.
C37_OnlyValidPosition ==
    (/\ selPc \in {"add", "done"}
     /\ selFound > 0
     /\ ~(0 <= selArgs.product_index /\ selArgs.product_index < selFound)) =>
        /\ selPc = "done"
        /\ \A k \in 1..Len(selCalls) : selCalls[k].call # "add_to_cart"
        /\ selResult.success = "False"
        /\ selResult.error \in {"out of range", "list index out of range"}

(***************************************************************************)
(* Termination of BlinkitCart.add_to_cart                                  *)
(***************************************************************************)
\* The asyncio loop runs the coroutine: a pending step of the endpoint loop
\* or of the retry loop is eventually taken.
SpecHttpLive ==
    Init /\ [][HttpNext]_vars
         /\ WF_vars(BeginRequest \/ Exhausted \/ AttemptTransportFault \/ AttemptAnswered)

\* The transport attempts the running call can still make: max_retries for
\* each endpoint not yet requested, and the rest of the current request's.
AttemptsLeft ==
    CASE pc = "loop" -> (Len(Endpoints(op)) - idx + 1) * max_retries
      [] pc = "request" ->
           (Len(Endpoints(op)) - idx + 1) * max_retries - AttemptsUpTo(Len(reqLog))
      [] OTHER -> 0

\* C38: add_to_cart makes at most 4 * max_retries transport attempts, never
\* goes back to an earlier candidate, and ends with True or CartError.
C38_AddToCartTerminates ==
    /\ [][(op = "add_to_cart" /\ pc \in {"loop", "request"}) =>
            /\ op' = op
            /\ idx' >= idx
            /\ requested' = SubSeq(Endpoints(op), 1, Len(requested'))
            /\ Len(requested') >= Len(requested)
            /\ AttemptsLeft <= MaxEndpoints * max_retries
            /\ AttemptsLeft' >= 0
            /\ pc = "request" => AttemptsLeft' < AttemptsLeft
            /\ pc = "loop" => AttemptsLeft' <= AttemptsLeft /\ pc' \in {"request", "done"}
            /\ pc' = "done" =>
                 \/ result'.kind = "return" /\ result'.val = "True"
                 \/ result'.kind = "raise" /\ result'.val = "CartError"]_vars
    /\ (op = "add_to_cart" /\ pc \in {"loop", "request"}) ~> (pc = "done")

\* all four candidates were requested, the last with max_retries attempts,
\* and the call ended with CartError
C38_Witness ==
    /\ op = "add_to_cart" /\ pc = "done"
    /\ result.kind = "raise" /\ result.val = "CartError"
    /\ Len(requested) = MaxEndpoints
    /\ AttemptsUpTo(Len(reqLog)) = max_retries

(***************************************************************************)
(* CheckoutService.place_order and LocationService.select_address on a     *)
(* page that may show the "Store is closed" notice.                        *)
(***************************************************************************)
StoreClosedMarker == "CRITICAL: Store is closed."

\* The source re-renders the page: the notice, the address list, the
\* Proceed control and the cart button are whatever it shows now.
PageChanges ==
    /\ \E notice \in BOOLEAN, items \in 0..MaxAddresses - 1, proceed \in BOOLEAN,
          cart_button \in BOOLEAN :
         shop_page' = [notice |-> notice, items |-> items, proceed |-> proceed,
                       cart_button |-> cart_button,
                       screen |-> IF items > 0 THEN "address" ELSE "cart",
                       selected |-> -1]
    /\ closedCall' = NoClosedCall
    /\ UNCHANGED nonShopVars

ClosedCall(name, index, clks, ret) ==
    [op |-> name, index |-> index, clicks |-> clks, ret |-> ret, before |-> shop_page]

\* CheckoutService.place_order(): the closed test comes first; then the cart
\* drawer is opened when Proceed is not visible, and Proceed is clicked.
Call_place_order ==
    /\ IF shop_page.notice
       THEN /\ closedCall' = ClosedCall("place_order", 0, <<>>, StoreClosedMarker)
            /\ UNCHANGED shop_page
       ELSE \E raises \in BOOLEAN, drawer_shows_proceed \in BOOLEAN,
               after \in {"address", "payment", "unknown"} :
              LET open_drawer == ~shop_page.proceed /\ shop_page.cart_button
                  c1 == IF open_drawer THEN <<"cart_button">> ELSE <<>>
                  proceed2 == shop_page.proceed \/ (open_drawer /\ drawer_shows_proceed)
              IN IF raises
                 THEN /\ closedCall' = ClosedCall("place_order", 0, <<>>, "ERROR")
                      /\ UNCHANGED shop_page
                 ELSE IF proceed2
                 THEN /\ closedCall' = ClosedCall("place_order", 0, c1 \o <<"Proceed">>,
                                          CASE after = "address" -> "ADDRESS_SELECTION_REQUIRED"
                                            [] after = "payment" -> "PAYMENT_SCREEN_READY"
                                            [] OTHER -> "CHECKOUT_INITIATED")
                      /\ shop_page' = [shop_page EXCEPT !.screen = after, !.proceed = FALSE]
                 ELSE /\ closedCall' = ClosedCall("place_order", 0, c1, "PROCEED_BUTTON_NOT_FOUND")
                      /\ shop_page' = [shop_page EXCEPT !.screen =
                                         IF open_drawer THEN "cart" ELSE @]
    /\ UNCHANGED nonShopVars

\* LocationService.select_address(index): the range test comes first, the
\* closed test only inside it; the function returns None everywhere else.
Call_location_select_address ==
    /\ \E index \in -1..MaxAddresses - 1, raises \in BOOLEAN :
         IF raises
         THEN /\ closedCall' = ClosedCall("select_address", index, <<>>, "None")
              /\ UNCHANGED shop_page
         ELSE IF index < shop_page.items
         THEN IF shop_page.notice
              THEN /\ closedCall' = ClosedCall("select_address", index, <<>>, StoreClosedMarker)
                   /\ UNCHANGED shop_page
              ELSE /\ closedCall' = ClosedCall("select_address", index, <<"address_item">>, "None")
                   /\ shop_page' = [shop_page EXCEPT
                                      !.selected = IF index >= 0 THEN index ELSE shop_page.items + index]
         ELSE /\ closedCall' = ClosedCall("select_address", index, <<>>, "None")
              /\ UNCHANGED shop_page
    /\ UNCHANGED nonShopVars

ShopNext ==
    \/ PageChanges
    \/ Call_place_order
    \/ Call_location_select_address

SpecClosed == Init /\ [][ShopNext]_vars

\* C39: while the "Store is closed" notice is visible, place_order and
\* select_address click nothing, return the store-closed marker and leave
\* the page as it was.
C39_ClosedStoreFrame ==
    (closedCall.op # "none" /\ closedCall.before.notice) =>
        /\ closedCall.clicks = <<>>
        /\ closedCall.ret = StoreClosedMarker
        /\ shop_page = closedCall.before

====
